---- MODULE Spec2Model ----
(***************************************************************************)
(* A model of trakktor's document restructuring engine                     *)
(* (src/trakktor/src/structify_text.rs): the call cache, the segmentation  *)
(* call with its fidelity retry loop, the boundary reconciler, the chunk   *)
(* driver, the paragraph summaries and the section assembler with its      *)
(* title calls.                                                            *)
(*                                                                         *)
(* Spec has the runs of the chunk driver on a document; FairSpec is Spec   *)
(* with the program kept running; TitlesSpec has the runs of create_titles *)
(* on the paragraphs of a document of one chunk; LongSpec has the runs of  *)
(* the chunk driver on documents of more than two chunks.  KeySpec applies *)
(* the cache keys of the model-bound calls on their own, ReconSpec the     *)
(* boundary reconciler, ParseSpec the paragraph parsing.  FaultSpec is     *)
(* TitlesSpec with failing cache reads and writes; StageSpec has the whole *)
(* runs of run_structify_text, from the opening of the cache to the final  *)
(* file, with every failure.                                               *)
(*                                                                         *)
(* Four more parts of the repository are modelled after the engine, each   *)
(* with a specification of its own: CfnSpec (and FairCfnSpec, CfnSpec with *)
(* the wait's loop kept turning) has the management of the infrastructure  *)
(* stacks, UploadSpec the multipart upload, IncludeSpec the expansion of a *)
(* chat document's includes, JobSpec the name of a job info object.        *)
(*                                                                         *)
(* Texts are sequences of characters; a character is a one-letter string.  *)
(* Words are non-empty sequences of non-whitespace characters.             *)
(***************************************************************************)
EXTENDS Naturals, Integers, Sequences, FiniteSets, TLC

(***************************************************************************)
(* Bounds of the model.  The four program constants are scaled down so     *)
(* that the state space stays finite and small; the source values are      *)
(* CHUNK_WORDS_THRESHOLD = 1000 (structify_text.rs:27), CHECK_WORDS = 25   *)
(* (:371), MAX_RETRIES = 10 (:467) and MAX_DISTANCE = 64 (:474).           *)
(***************************************************************************)
CHUNK_WORDS_THRESHOLD == 2

CHECK_WORDS == 2

MAX_RETRIES == 2

MAX_DISTANCE == 2

\* The longest document (in words) Init draws.
MaxDocWords == 4

\* How many times the program is run on the same document and cache file.
MaxRuns == 2

\* The paragraphs handed to create_titles: at most MaxParagraphs.
MaxParagraphs == 2

(***************************************************************************)
(* Characters and strings                                                  *)
(***************************************************************************)
SP == " "

NL == "\n"

CR == "\r"

\* char::is_whitespace, on the characters of the texts.
IsWhitespace(c) == c \in {SP, NL, CR}

Min2(a, b) == IF a <= b THEN a ELSE b

RECURSIVE Concat(_)
\* The concatenation of a sequence of strings.
Concat(ss) == IF ss = <<>> THEN <<>> ELSE Head(ss) \o Concat(Tail(ss))

\* push_word: append a word to a text, after a single space unless the text
\* is empty.
push_word(text, word) == IF text # <<>> THEN text \o <<SP>> \o word ELSE word

RECURSIVE JoinWith(_, _)
\* itertools' join / slice::join: the items with sep between each two.
JoinWith(items, sep) ==
    IF items = <<>> THEN <<>>
    ELSE IF Len(items) = 1 THEN items[1]
    ELSE items[1] \o sep \o JoinWith(Tail(items), sep)

RECURSIVE SplitOn(_, _, _, _)
\* The pieces of s between the characters satisfying the separator test
\* delim (a set of characters), empty pieces kept; cur is the piece being read.
SplitOn(s, delim, cur, acc) ==
    IF s = <<>> THEN Append(acc, cur)
    ELSE IF Head(s) \in delim THEN SplitOn(Tail(s), delim, <<>>, Append(acc, cur))
    ELSE SplitOn(Tail(s), delim, Append(cur, Head(s)), acc)

\* str::split_whitespace: the maximal runs of non-whitespace characters.
split_whitespace(s) ==
    SelectSeq(SplitOn(s, {SP, NL, CR}, <<>>, <<>>), LAMBDA w : w # <<>>)

\* A line that a line feed ended, without the carriage return before the
\* line feed if there is one.
strip_cr(line) ==
    IF line # <<>> /\ line[Len(line)] = CR THEN SubSeq(line, 1, Len(line) - 1)
    ELSE line

\* str::lines: the text split at line feeds, a carriage return before a
\* line feed going with it; a final line feed ends the last line instead of
\* starting an empty one, and the empty text has no line.
lines(s) ==
    LET parts == SplitOn(s, {NL}, <<>>, <<>>)
        n == Len(parts)
    IN  [i \in 1..(n - 1) |-> strip_cr(parts[i])]
            \o (IF parts[n] = <<>> THEN <<>> ELSE <<parts[n]>>)

RECURSIVE TrimStart(_)
TrimStart(s) ==
    IF s # <<>> /\ IsWhitespace(Head(s)) THEN TrimStart(Tail(s)) ELSE s

RECURSIVE TrimEnd(_)
TrimEnd(s) ==
    IF s # <<>> /\ IsWhitespace(s[Len(s)]) THEN TrimEnd(SubSeq(s, 1, Len(s) - 1))
    ELSE s

\* str::trim
trim(s) == TrimEnd(TrimStart(s))

(***************************************************************************)
(* edit_distance::edit_distance: the Levenshtein distance of two strings,  *)
(* computed row by row over the characters of a.                           *)
(***************************************************************************)
RECURSIVE LevRow(_, _, _, _)
\* The next row of the distance table, for character c of a: row[j + 1] is
\* the distance of the prefix of a read so far to the first j characters of b.
LevRow(prev, c, b, row) ==
    IF Len(row) = Len(b) + 1 THEN row
    ELSE LET j == Len(row)
             sub == prev[j] + (IF c = b[j] THEN 0 ELSE 1)
         IN  LevRow(prev, c, b,
                    Append(row, Min2(Min2(prev[j + 1] + 1, row[j] + 1), sub)))

RECURSIVE LevRows(_, _, _)
LevRows(a, b, prev) ==
    IF a = <<>> THEN prev
    ELSE LevRows(Tail(a), b, LevRow(prev, Head(a), b, <<prev[1] + 1>>))

edit_distance(a, b) == LevRows(a, b, [j \in 1..(Len(b) + 1) |-> j - 1])[Len(b) + 1]

(***************************************************************************)
(* The call cache: keys, payloads                                          *)
(***************************************************************************)
\* {:?} of a char inside a string: the line feed, the carriage return, the
\* quote and the backslash are escaped.
escape_debug(c) ==
    IF c = NL THEN <<"\\", "n">>
    ELSE IF c = CR THEN <<"\\", "r">>
    ELSE IF c = "\"" \/ c = "\\" THEN <<"\\", c>>
    ELSE <<c>>

\* {:?} of a String: quoted and escaped.
debug_str(str) ==
    <<"\"">> \o Concat([i \in 1..Len(str) |-> escape_debug(str[i])]) \o <<"\"">>

\* {:?} of a slice of Strings: ["..", ".."]
debug_strings(v) ==
    <<"[">> \o JoinWith([i \in 1..Len(v) |-> debug_str(v[i])], <<",", SP>>)
            \o <<"]">>

\* hasher::get_hash_value: the BLAKE3 digest of the data, base64-encoded.
\* The digest is taken to be collision-free: it is the data under a tag.
get_hash_value(data) == <<"blake3">> \o data

\* {:?} of an Option of a string: None, or Some("..")
debug_option(opt) ==
    IF opt = <<>> THEN <<"None">> ELSE <<"Some(">> \o debug_str(opt[1]) \o <<")">>

\* {:?} of an OpenAiAPI, as #[derive(Debug)] prints it: the fields by name,
\* in the order of the declaration.  An Option is <<>> or <<value>>.
debug_open_ai(api) ==
    <<"OpenAiAPI { api_key: ">> \o debug_option(api.api_key)
        \o <<", server_url: ">> \o debug_option(api.server_url)
        \o <<", chat_model: ">> \o debug_option(api.chat_model)
        \o <<", embeddings_model: ">> \o debug_option(api.embeddings_model)
        \o <<" }">>

\* A fingerprint that leaves the chat model out.
open_ai_config_hash_without_model(api) ==
    get_hash_value(debug_open_ai([api EXCEPT !.chat_model = <<>>]))

\* <OpenAiAPI as ConfigHash>::config_hash: the digest of the {:?} text.
open_ai_config_hash(api) == get_hash_value(debug_open_ai(api))

\* The provider configuration of the runs: one fixed configuration.
chat_api ==
    [api_key |-> <<<<"k">>>>, server_url |-> <<>>, chat_model |-> <<<<"m", "1">>>>,
     embeddings_model |-> <<>>]

\* ConfigHash::config_hash of the runs' chat provider.
config_hash == open_ai_config_hash(chat_api)

\* The fixed system prompts, each one opaque text.
STRUCTIFY_PROMPT == "STRUCTIFY_PROMPT"

\* format!("get_paragraphs:\n{}\n\n{}\n\n{}", fingerprint, prompt, text); the
\* fingerprint, a digest, is one token of the text.
get_paragraphs_key(fingerprint, text) ==
    get_hash_value(<<"get_paragraphs:", NL, fingerprint, NL, NL,
                     STRUCTIFY_PROMPT, NL, NL>> \o text)

\* The key get_paragraphs computes under the runs' provider.
get_paragraphs_call_hash(text) == get_paragraphs_key(config_hash, text)

\* format!("get_next_text_words:\n{}\n-----\n{}", accepted.join("\n"), orig)
get_next_text_words_call_hash(accepted_paragraphs, orig_text) ==
    get_hash_value(<<"get_next_text_words:", NL>>
                   \o JoinWith(accepted_paragraphs, <<NL>>)
                   \o <<NL, "-----", NL>> \o orig_text)

SUMMARIZE_PARAGRAPH_PROMPT == "summarize-paragraph-prompt"

GET_SECTION_TITLE_PROMPT == "get-section-title-prompt"

\* format!("summarize_paragraphs:\n{}\n\n{}\n\n{}", config, prompt, src_par)
summarize_paragraphs_key(fingerprint, text) ==
    get_hash_value(<<"summarize_paragraphs:", NL, fingerprint, NL, NL,
                     SUMMARIZE_PARAGRAPH_PROMPT, NL, NL>> \o text)

\* The key summarize_paragraphs computes under the runs' provider.
summarize_paragraphs_call_hash(text) == summarize_paragraphs_key(config_hash, text)

\* format!("get_section_title:\n{}\n\n{}\n\n{:?}", config, prompt, paragraphs)
get_section_title_key(fingerprint, section) ==
    get_hash_value(<<"get_section_title:", NL, fingerprint, NL, NL,
                     GET_SECTION_TITLE_PROMPT, NL, NL>> \o debug_strings(section))

\* The key get_section_title computes under the runs' provider.
get_section_title_call_hash(section) == get_section_title_key(config_hash, section)

\* rmp_serde::to_vec of a String: a MessagePack string.
to_vec_string(str) == <<"str", str>>

\* rmp_serde::to_vec of a Vec<String>: a MessagePack array of strings.
to_vec_strings(v) == <<"array", [i \in 1..Len(v) |-> <<"str", v[i]>>]>>

\* The result of a fallible operation: Ok(value), or an error of some kind.
Ok(v) == [tag |-> "Ok", value |-> v]

Err(kind) == [tag |-> kind]

\* rmp_serde::from_slice::<String>; an error for any other payload.
from_slice_string(data) ==
    IF data[1] = "str" THEN Ok(data[2]) ELSE Err("DecodeError")

\* rmp_serde::from_slice::<Vec<String>>; an error for any other payload.
from_slice_strings(data) ==
    IF data[1] = "array" /\ \A i \in 1..Len(data[2]) : data[2][i][1] = "str"
    THEN Ok([i \in 1..Len(data[2]) |-> data[2][i][2]])
    ELSE Err("DecodeError")

\* rmp_serde::to_vec of a NextTextWordsRes: the array of its three fields.
to_vec_next(res) ==
    <<"array", <<to_vec_strings(res.words), <<"uint", res.skipped_words>>,
                 <<"uint", res.distance>> >> >>

\* rmp_serde::from_slice::<NextTextWordsRes>
from_slice_next(data) ==
    IF /\ data[1] = "array" /\ Len(data[2]) = 3
       /\ data[2][1][1] = "array" /\ data[2][2][1] = "uint"
       /\ data[2][3][1] = "uint"
       /\ from_slice_strings(data[2][1]).tag = "Ok"
    THEN Ok([words |-> from_slice_strings(data[2][1]).value,
             skipped_words |-> data[2][2][2], distance |-> data[2][3][2]])
    ELSE Err("DecodeError")

\* rmp_serde::from_slice::<T> for the types T the cache is read at.
from_slice(T, data) ==
    IF T = "String" THEN from_slice_string(data)
    ELSE IF T = "Vec<String>" THEN from_slice_strings(data)
    ELSE from_slice_next(data)

\* A get_data_sync that finds no key.
get_data_sync_absent(table, call_hash, T) == [tag |-> "None"]

\* CallCache::get_data_sync::<T>: Ok of the decoded payload bound to the key,
\* None when the key is not bound, an error when the payload does not decode.
get_data_sync(table, call_hash, T) ==
    IF call_hash \in DOMAIN table THEN from_slice(T, table[call_hash])
    ELSE [tag |-> "None"]

\* A put_data_sync whose write transaction is never committed.
put_data_sync_uncommitted(table, call_hash, data) == table

\* CallCache::put_data_sync: the table after the committed insert.
put_data_sync(table, call_hash, data) ==
    [k \in DOMAIN table \cup {call_hash} |->
        IF k = call_hash THEN data ELSE table[k]]

(***************************************************************************)
(* Segmentation call: the pure parts of get_paragraphs                     *)
(***************************************************************************)
\* content.split_whitespace().join(" ")
normalize(content) == JoinWith(split_whitespace(content), <<SP>>)

RECURSIVE GroupLines_every_blank(_, _, _)
\* A grouping in which every blank line ends a group, an empty one too.
GroupLines_every_blank(ls, cur, acc) ==
    IF ls = <<>> THEN (IF cur = <<>> THEN acc ELSE Append(acc, JoinWith(cur, <<SP>>)))
    ELSE IF Head(ls) # <<>>
         THEN GroupLines_every_blank(Tail(ls), Append(cur, Head(ls)), acc)
         ELSE GroupLines_every_blank(Tail(ls), <<>>,
                                     Append(acc, JoinWith(cur, <<SP>>)))

RECURSIVE GroupLines(_, _, _)
\* chunk_by(non-empty) over the trimmed lines, the non-empty groups each
\* joined by single spaces.
GroupLines(ls, cur, acc) ==
    IF ls = <<>> THEN (IF cur = <<>> THEN acc ELSE Append(acc, JoinWith(cur, <<SP>>)))
    ELSE IF Head(ls) # <<>> THEN GroupLines(Tail(ls), Append(cur, Head(ls)), acc)
    ELSE GroupLines(Tail(ls), <<>>,
                    IF cur = <<>> THEN acc ELSE Append(acc, JoinWith(cur, <<SP>>)))

\* A parse that forgets the group still open at the end of the text.
parse_paragraphs_unflushed(content) ==
    LET ls == lines(content)
        ps == GroupLines([i \in 1..Len(ls) |-> trim(ls[i])], <<>>, <<>>)
    IN  IF ls # <<>> /\ trim(ls[Len(ls)]) # <<>> THEN SubSeq(ps, 1, Len(ps) - 1)
        ELSE ps

\* The paragraphs of an accepted response.
parse_paragraphs(content) ==
    LET ls == lines(content)
    IN  GroupLines([i \in 1..Len(ls) |-> trim(ls[i])], <<>>, <<>>)

RECURSIVE MinByKeyLastFrom(_, _, _)
MinByKeyLastFrom(items, key, best) ==
    IF items = <<>> THEN best
    ELSE MinByKeyLastFrom(Tail(items), key,
                          IF Head(items)[key] <= best[key] THEN Head(items) ELSE best)

\* A choice of the last element with the least key.
min_by_key_last(items, key) == MinByKeyLastFrom(Tail(items), key, Head(items))

RECURSIVE MinByKeyFrom(_, _, _)
\* Iterator::min_by_key: the first element with the least key; best is the
\* least so far.
MinByKeyFrom(items, key, best) ==
    IF items = <<>> THEN best
    ELSE MinByKeyFrom(Tail(items), key,
                      IF Head(items)[key] < best[key] THEN Head(items) ELSE best)

\* key is the field of the pair that the closure projects (|e| e.1 is 2).
min_by_key(items, key) == MinByKeyFrom(Tail(items), key, Head(items))

(***************************************************************************)
(* Boundary reconciler: the computation of get_next_text_words             *)
(***************************************************************************)
RECURSIVE ScanLoop(_, _, _, _, _, _, _)
\* The scan over the original words from (0-based) index i: the (index,
\* distance) pairs recorded.
ScanLoop(i, orig_part_words, orig_fragment, llm_text_seq, from_idx, to_idx, dist) ==
    IF i >= Len(orig_part_words) THEN dist
    ELSE LET fragment == push_word(orig_fragment, orig_part_words[i + 1])
             dist2 == IF i >= from_idx
                      THEN Append(dist, <<i, edit_distance(llm_text_seq, fragment)>>)
                      ELSE dist
         IN  IF i >= to_idx THEN dist2
             ELSE ScanLoop(i + 1, orig_part_words, fragment, llm_text_seq,
                           from_idx, to_idx, dist2)

\* The candidates the scan records for the accepted paragraphs and the
\* original text.
scan_candidates(accepted_paragraphs, orig_text) ==
    LET llm_res_words ==
            Concat([p \in 1..Len(accepted_paragraphs) |->
                        split_whitespace(accepted_paragraphs[p])])
        res_words_count == Len(llm_res_words)
    IN  ScanLoop(0, split_whitespace(orig_text), <<>>,
                 JoinWith(llm_res_words, <<SP>>),
                 res_words_count - CHECK_WORDS, res_words_count + CHECK_WORDS,
                 <<>>)

\* A reconciler that skips min_e.0 words instead of min_e.0 + 1: the word
\* at the chosen index stays in the stream.
compute_next_text_words_keep_word(accepted_paragraphs, orig_text) ==
    LET dist == scan_candidates(accepted_paragraphs, orig_text)
        orig_part_words == split_whitespace(orig_text)
    IN  IF dist = <<>> THEN Err("Panic")
        ELSE LET min_e == min_by_key(dist, 2)
             IN  Ok([words |-> SubSeq(orig_part_words, min_e[1] + 1,
                                      Len(orig_part_words)),
                     skipped_words |-> min_e[1],
                     distance |-> min_e[2]])

\* A reconciler that reports the number of words covered (a 1-based
\* position) as skipped_words.
compute_next_text_words_one_based(accepted_paragraphs, orig_text) ==
    LET dist == scan_candidates(accepted_paragraphs, orig_text)
        orig_part_words == split_whitespace(orig_text)
    IN  IF dist = <<>> THEN Err("Panic")
        ELSE LET min_e == min_by_key(dist, 2)
             IN  Ok([words |-> SubSeq(orig_part_words, min_e[1] + 2,
                                      Len(orig_part_words)),
                     skipped_words |-> min_e[1] + 1,
                     distance |-> min_e[2]])

\* The result computed on a cache miss; a panic when unwrap meets no
\* candidate.
compute_next_text_words(accepted_paragraphs, orig_text) ==
    LET dist == scan_candidates(accepted_paragraphs, orig_text)
        orig_part_words == split_whitespace(orig_text)
    IN  IF dist = <<>> THEN Err("Panic")
        ELSE LET min_e == min_by_key(dist, 2)
             IN  Ok([words |-> SubSeq(orig_part_words, min_e[1] + 2,
                                      Len(orig_part_words)),
                     skipped_words |-> min_e[1],
                     distance |-> min_e[2]])

\* A get_next_text_words that computes and stores without reading the cache.
get_next_text_words_call_always_put(table, accepted_paragraphs, orig_text) ==
    LET call_hash == get_next_text_words_call_hash(accepted_paragraphs, orig_text)
        res == compute_next_text_words(accepted_paragraphs, orig_text)
    IN  IF res.tag = "Ok"
        THEN [tag |-> "Ok", hit |-> FALSE, value |-> res.value,
              table |-> put_data_sync(table, call_hash, to_vec_next(res.value))]
        ELSE [tag |-> "Panic", hit |-> FALSE, table |-> table]

\* get_next_text_words as a function of the cache table: the result (cached,
\* or computed and cached) with the table after the call, or the panic.
get_next_text_words_call(table, accepted_paragraphs, orig_text) ==
    LET call_hash == get_next_text_words_call_hash(accepted_paragraphs, orig_text)
        got == get_data_sync(table, call_hash, "NextTextWordsRes")
        res == compute_next_text_words(accepted_paragraphs, orig_text)
    IN  IF got.tag = "Ok"
        THEN [tag |-> "Ok", hit |-> TRUE, value |-> got.value, table |-> table]
        ELSE IF res.tag = "Ok"
        THEN [tag |-> "Ok", hit |-> FALSE, value |-> res.value,
              table |-> put_data_sync(table, call_hash, to_vec_next(res.value))]
        ELSE [tag |-> "Panic", hit |-> FALSE, table |-> table]

(***************************************************************************)
(* The chat capability: what the model may answer to a text.  The answers  *)
(* are the text's words laid out in lines and paragraphs, and drifted      *)
(* variants of it: the last word lost, one or two words added, the text    *)
(* said three times over.                                                  *)
(***************************************************************************)
\* The documents' words.
DocWords == {<<"a">>, <<"b">>}

\* A word the model makes up.
ExtraWord == <<"x", "y">>

\* The words ws with a blank line at the gaps in breaks (gap g lies between
\* word g and word g + 1) and one space at the others.
Layout(ws, breaks) ==
    Concat([i \in 1..Len(ws) |->
              IF i = 1 THEN ws[i]
              ELSE (IF (i - 1) \in breaks THEN <<NL, NL>> ELSE <<SP>>) \o ws[i]])

\* The same paragraphs in a ragged layout: one word per line, indented, the
\* paragraphs parted by a whitespace-only line and a blank line.
Ragged(ws, breaks) ==
    Concat([i \in 1..Len(ws) |->
              (IF i = 1 THEN <<SP>>
               ELSE IF (i - 1) \in breaks THEN <<SP, NL, SP, NL, NL>>
               ELSE <<NL>>) \o ws[i]]) \o <<NL>>

FaithfulResponses(text) ==
    LET ws == split_whitespace(text)
    IN  IF ws = <<>> THEN {<<>>}
        ELSE UNION {{Layout(ws, b), Ragged(ws, b)} : b \in SUBSET (1..(Len(ws) - 1))}

\* The words ws with one blank line, before the last word.
LastApart(ws) == Layout(ws, {Len(ws) - 1} \ {0})

DriftedResponses(text) ==
    LET ws == split_whitespace(text)
    IN  {LastApart(SubSeq(ws, 1, Len(ws) - 1)), LastApart(Append(ws, ExtraWord)),
         LastApart(ws \o <<ExtraWord, ExtraWord>>),
         LastApart(ws \o ws \o ws), Layout(ws \o ws \o ws, {})}

Responses(text) == FaithfulResponses(text) \cup DriftedResponses(text)

\* The summaries the model may give of a paragraph: its first word, its
\* first word and a word more, or nothing.
SummaryResponses(src_par) ==
    LET ws == split_whitespace(src_par)
    IN  IF ws = <<>> THEN {<<>>}
        ELSE {<<>>, ws[1], ws[1] \o <<SP, "s">>}

\* The titles the model may give of a section's text: a word made from the
\* text's first letter, bare or with whitespace around it.
TitleResponses(section_text) ==
    LET w == IF section_text = <<>> THEN <<"T">> ELSE <<"T", section_text[1]>>
    IN  {w, <<SP>> \o w \o <<NL>>}

(***************************************************************************)
(* The section assembler: the pure parts of create_titles                  *)
(***************************************************************************)
\* A tagging that counts the paragraphs from the last one.
summaries_words_from_last(summaries) ==
    Concat([i \in 1..Len(summaries) |->
              [j \in 1..Len(split_whitespace(summaries[i])) |->
                  <<Len(summaries) - i, split_whitespace(summaries[i])[j]>>]])

\* Pairs of (paragraph index, word): the words of the summaries, each
\* tagged with the (0-based) index of its paragraph.
summaries_words(summaries) ==
    Concat([i \in 1..Len(summaries) |->
              [j \in 1..Len(split_whitespace(summaries[i])) |->
                  <<i - 1, split_whitespace(summaries[i])[j]>>]])

\* The words of tagged words, joined by single spaces.
current_text(tagged) == JoinWith([i \in 1..Len(tagged) |-> tagged[i][2]], <<SP>>)

\* par_words after the loop over a slice of tagged words: paragraph index
\* -> the number of the slice's words it owns.
count_par_words(slice) ==
    [n \in {slice[i][1] : i \in 1..Len(slice)} |->
        Cardinality({i \in 1..Len(slice) : slice[i][1] = n})]

RECURSIVE par_in_section_from_last(_, _, _)
\* A loop in which a section with as many of the paragraph's words replaces
\* the entry too.
par_in_section_from_last(sec_i, spw, acc) ==
    IF sec_i >= Len(spw) THEN acc
    ELSE LET pars_words == spw[sec_i + 1]
         IN  par_in_section_from_last(sec_i + 1, spw,
                [p \in DOMAIN acc \cup DOMAIN pars_words |->
                    IF p \notin DOMAIN pars_words THEN acc[p]
                    ELSE IF p \notin DOMAIN acc THEN <<sec_i, pars_words[p]>>
                    ELSE IF pars_words[p] >= acc[p][2] THEN <<sec_i, pars_words[p]>>
                    ELSE acc[p]])

RECURSIVE par_in_section_from(_, _, _)
\* The loop over the sections from (0-based) sec_i: a paragraph's entry is
\* (section, count), replaced only by a section with more of its words.
par_in_section_from(sec_i, spw, acc) ==
    IF sec_i >= Len(spw) THEN acc
    ELSE LET pars_words == spw[sec_i + 1]
         IN  par_in_section_from(sec_i + 1, spw,
                [p \in DOMAIN acc \cup DOMAIN pars_words |->
                    IF p \notin DOMAIN pars_words THEN acc[p]
                    ELSE IF p \notin DOMAIN acc THEN <<sec_i, pars_words[p]>>
                    ELSE IF pars_words[p] > acc[p][2] THEN <<sec_i, pars_words[p]>>
                    ELSE acc[p]])

par_in_section(spw) == par_in_section_from(0, spw, <<>>)

RECURSIVE into_iter_descending(_)
\* An iteration over the keys in descending order.
into_iter_descending(keys) ==
    IF keys = {} THEN <<>>
    ELSE LET greatest == CHOOSE k \in keys : \A j \in keys : k >= j
         IN  <<greatest>> \o into_iter_descending(keys \ {greatest})

RECURSIVE into_iter(_)
\* BTreeMap::into_iter: the keys in ascending order.
into_iter(keys) ==
    IF keys = {} THEN <<>>
    ELSE LET least == CHOOSE k \in keys : \A j \in keys : k <= j
         IN  <<least>> \o into_iter(keys \ {least})

RECURSIVE chunk_by_section(_, _, _)
\* chunk_by over the (section, paragraph) pairs: the runs of consecutive
\* pairs of one section, each as the list of its paragraph indices.
chunk_by_section(pairs, cur, acc) ==
    IF pairs = <<>> THEN (IF cur = <<>> THEN acc ELSE Append(acc, cur))
    ELSE IF cur = <<>> \/ cur[Len(cur)][1] = Head(pairs)[1]
         THEN chunk_by_section(Tail(pairs), Append(cur, Head(pairs)), acc)
         ELSE chunk_by_section(Tail(pairs), <<Head(pairs)>>, Append(acc, cur))

\* The local par_in_section of the loop over the chunks: per emitted
\* section, the (0-based) indices of its paragraphs.
section_paragraphs(spw) ==
    LET assigned == par_in_section(spw)
        order == into_iter(DOMAIN assigned)
        pairs == [i \in 1..Len(order) |-> <<assigned[order[i]][1], order[i]>>]
        chunks == chunk_by_section(pairs, <<>>, <<>>)
    IN  [c \in 1..Len(chunks) |-> [k \in 1..Len(chunks[c]) |-> chunks[c][k][2]]]

\* final_sections: per emitted section, the texts of its paragraphs.
build_final_sections(spw, paragraph_texts) ==
    LET pars == section_paragraphs(spw)
    IN  [c \in 1..Len(pars) |->
            [k \in 1..Len(pars[c]) |-> paragraph_texts[pars[c][k] + 1]]]

\* A usage set that holds the sections instead of the paragraphs.
par_usage_sections(spw) == 1..Len(spw)

\* par_usage: the paragraph indices put into some section.
par_usage(spw) == DOMAIN par_in_section(spw)

\* A test that lets every assignment through.
not_all_paragraphs_used_never(spw, paragraph_texts) == FALSE

\* par_usage.len() != result_paragraphs.len()
not_all_paragraphs_used(spw, paragraph_texts) ==
    Cardinality(par_usage(spw)) # Len(paragraph_texts)

\* format!("###### {}\n\n", title.trim()) followed by format!("{}\n\n", par)
\* for every paragraph of the section.
section_text_with_title(title, sec) ==
    <<"######", SP>> \o trim(title) \o <<NL, NL>>
        \o Concat([i \in 1..Len(sec) |-> sec[i] \o <<NL, NL>>])

\* The extensions of the output files.
RESULT_FILE_EXT == "trakktor.text.md"

PARAGRAPHS_SUMMARY_FILE_EXT == "trakktor.summaries.md"

\* tokio::fs::write: the file is created or replaced.
write_file(fs, name, file_content) ==
    [f \in DOMAIN fs \cup {name} |-> IF f = name THEN file_content ELSE fs[f]]

(***************************************************************************)
(* State                                                                   *)
(***************************************************************************)
VARIABLES
    doc,                \* the words of the input document
    cache,              \* the cache file's table: call hash -> payload
    pc,                 \* where the run is
    all_words,          \* words_to_paragraphs: the live word stream
    result_paragraphs,  \* words_to_paragraphs: the result so far
    llm_text,           \* words_to_paragraphs: the chunk sent to the model
    orig_text,          \* words_to_paragraphs: all the remaining words
    last_chunk,         \* words_to_paragraphs: llm_text == orig_text
    paragraphs,         \* what get_paragraphs returned
    retry_number,       \* get_paragraphs: the attempt being made
    retries,            \* get_paragraphs: the rejected (distance, content)
    content,            \* get_paragraphs: the accepted response
    run,                \* history: the number of this run (1, 2, ...)
    iter,               \* history: loop iterations begun in this run
    call,               \* history: the get_paragraphs call under way
    requested,          \* history: a model request was made in this run
    faithful,           \* history: every answer so far kept the words
    ckpt,               \* history: the driver's state at the last loop head
    prev,               \* history: how the run before this one ended
    last_ntw,           \* history: the get_next_text_words call just made
    caller,             \* which function called words_to_paragraphs
    ct_paragraphs,      \* create_titles: its argument result_paragraphs
    result_summaries,   \* summarize_paragraphs: the summaries so far
    summary,            \* the model's answer in a summary or title call
    sections,           \* create_titles: the sections of the summaries
    summaries_words_p,  \* create_titles: the tagged words not yet covered
    section_par_words,  \* create_titles: per section, paragraph -> words
    final_sections,     \* create_titles: the sections not yet titled
    text_with_sections, \* create_titles: the final text so far
    files,              \* the output files written: extension -> content
    fn_args,            \* the arguments of the function applied on its own
    fn_ret              \* what that function returned

locals == <<all_words, result_paragraphs, llm_text, orig_text, last_chunk,
            paragraphs, retry_number, retries, content>>

history == <<run, iter, call, requested, faithful, ckpt, prev, last_ntw>>

titles_locals == <<result_summaries, summary, sections, summaries_words_p,
                   section_par_words, final_sections, text_with_sections>>

\* What no step of words_to_paragraphs touches.
ct_frame == <<caller, ct_paragraphs, files, fn_args, fn_ret>>

vars == <<doc, cache, pc, locals, history, titles_locals, ct_frame>>

Running == {"start", "loop", "gp_get", "gp_chat", "gp_put", "after_gp", "ntw",
            "sum_get", "sum_chat", "sum_put", "sections", "walk",
            "title_get", "title_chat", "title_put"}

Ended == {"done", "failed", "panicked", "aborted"}

\* The documents: up to MaxDocWords words.  Exchanging the two words of
\* DocWords maps runs to runs, so the first word is fixed.
Docs ==
    {d \in UNION {[1..n -> DocWords] : n \in 0..MaxDocWords} :
        d = <<>> \/ d[1] = <<"a">>}

\* No get_paragraphs call is under way.
NoCall == [op |-> "none", key |-> <<>>, hit |-> FALSE, miss |-> FALSE,
           requests |-> 0, answers |-> <<>>]

\* The lookup of a model-bound call of operation op has hit, or missed.
LookedUp(op, key, found) ==
    [NoCall EXCEPT !.op = op, !.key = key, !.hit = found, !.miss = ~found]

NoTitlesLocals == <<<<>>, <<>>, <<>>, <<>>, <<>>, <<>>, <<>>>>

NoCkpt == [n |-> 0, pc |-> "none", all_words |-> <<>>,
           result_paragraphs |-> <<>>, titles |-> NoTitlesLocals]

\* The state at the head of a loop: the n-th loop head of the run.
LoopHead ==
    [n |-> ckpt.n + 1, pc |-> pc, all_words |-> all_words,
     result_paragraphs |-> result_paragraphs, titles |-> titles_locals]

NoNtw == [tag |-> "None"]

NoPrev == [pc |-> "none", result_paragraphs |-> <<>>, ckpt |-> NoCkpt,
           keys |-> {}]

\* run_structify_text up to the call of words_to_paragraphs: the input is
\* read and the cache file opened (created empty on the first run).
Init ==
    /\ doc \in Docs
    /\ cache = <<>>
    /\ pc = "start"
    /\ all_words = <<>>
    /\ result_paragraphs = <<>>
    /\ llm_text = <<>>
    /\ orig_text = <<>>
    /\ last_chunk = FALSE
    /\ paragraphs = <<>>
    /\ retry_number = 0
    /\ retries = <<>>
    /\ content = <<>>
    /\ run = 1
    /\ iter = 0
    /\ call = NoCall
    /\ requested = FALSE
    /\ faithful = TRUE
    /\ ckpt = NoCkpt
    /\ prev = NoPrev
    /\ last_ntw = NoNtw
    /\ caller = "run_structify_text"
    /\ ct_paragraphs = <<>>
    /\ result_summaries = <<>>
    /\ summary = <<>>
    /\ sections = <<>>
    /\ summaries_words_p = <<>>
    /\ section_par_words = <<>>
    /\ final_sections = <<>>
    /\ text_with_sections = <<>>
    /\ files = <<>>
    /\ fn_args = <<>>
    /\ fn_ret = <<>>

\* The locals of get_paragraphs go out of scope.
DropCallLocals ==
    /\ retry_number' = 0
    /\ retries' = <<>>
    /\ content' = <<>>

\* The locals of one loop iteration go out of scope.
DropIterationLocals ==
    /\ llm_text' = <<>>
    /\ orig_text' = <<>>
    /\ last_chunk' = FALSE
    /\ paragraphs' = <<>>
    /\ DropCallLocals

\* The locals of create_titles go out of scope.
DropTitlesLocals ==
    /\ result_summaries' = <<>>
    /\ summary' = <<>>
    /\ sections' = <<>>
    /\ summaries_words_p' = <<>>
    /\ section_par_words' = <<>>
    /\ final_sections' = <<>>
    /\ text_with_sections' = <<>>

\* An error return, a panic or a kill: every local is dropped.
DropLocals ==
    /\ all_words' = <<>>
    /\ result_paragraphs' = <<>>
    /\ DropIterationLocals
    /\ DropTitlesLocals

(***************************************************************************)
(* The chunk driver, words_to_paragraphs                                   *)
(***************************************************************************)
\* The words the caller passes: run_structify_text the document's,
\* create_titles those of the summaries.
input_words ==
    IF caller = "run_structify_text" THEN doc
    ELSE LET tagged == summaries_words(result_summaries)
         IN  [i \in 1..Len(tagged) |-> tagged[i][2]]

\* A test that lets an empty stream through.
no_words_found_never(words) == FALSE

\* all_words.len() < 1
no_words_found(words) == Len(words) < 1

\* The entry: collect the words, fail on an empty input.
words_to_paragraphs_begin ==
    /\ pc = "start"
    /\ IF no_words_found(input_words)
       THEN /\ pc' = "failed"
            /\ UNCHANGED all_words
            /\ DropTitlesLocals
       ELSE /\ pc' = "loop"
            /\ all_words' = input_words
            /\ UNCHANGED titles_locals
    /\ UNCHANGED <<doc, cache, result_paragraphs, llm_text, orig_text,
                   last_chunk, paragraphs, retry_number, retries, content,
                   history, ct_frame>>

RECURSIVE BuildTexts_inclusive(_, _, _, _)
\* A loop that sends the word at index CHUNK_WORDS_THRESHOLD too.
BuildTexts_inclusive(i, words, llm, orig) ==
    IF i >= Len(words) THEN <<llm, orig>>
    ELSE BuildTexts_inclusive(i + 1, words,
                    IF i <= CHUNK_WORDS_THRESHOLD THEN push_word(llm, words[i + 1])
                    ELSE llm,
                    push_word(orig, words[i + 1]))

RECURSIVE BuildTexts(_, _, _, _)
\* The loop over the stream's (0-based) indices from i: every word is pushed
\* to orig_text, those at indices below CHUNK_WORDS_THRESHOLD to llm_text
\* too.  The pair (llm_text, orig_text).
BuildTexts(i, words, llm, orig) ==
    IF i >= Len(words) THEN <<llm, orig>>
    ELSE BuildTexts(i + 1, words,
                    IF i < CHUNK_WORDS_THRESHOLD THEN push_word(llm, words[i + 1])
                    ELSE llm,
                    push_word(orig, words[i + 1]))

\* A loop head that does not wait for get_next_text_words: from the second
\* iteration on, the chunk is built from the words after the first
\* CHUNK_WORDS_THRESHOLD of the stream of the iteration before.
build_chunk_ahead ==
    /\ pc = "loop"
    /\ LET ahead == IF iter = 0 THEN all_words
                    ELSE SubSeq(ckpt.all_words, CHUNK_WORDS_THRESHOLD + 1,
                                Len(ckpt.all_words))
           texts == BuildTexts(0, ahead, <<>>, <<>>)
       IN  /\ llm_text' = texts[1]
           /\ orig_text' = texts[2]
           /\ last_chunk' = (texts[1] = texts[2])
    /\ pc' = "gp_get"
    /\ iter' = iter + 1
    /\ ckpt' = LoopHead
    /\ UNCHANGED <<doc, cache, all_words, result_paragraphs, paragraphs,
                   retry_number, retries, content, run, call, requested,
                   faithful, prev, titles_locals, ct_frame>>
    /\ last_ntw' = NoNtw

\* The loop head: build the chunk and the full remainder text.
build_chunk ==
    /\ pc = "loop"
    /\ LET texts == BuildTexts(0, all_words, <<>>, <<>>)
       IN  /\ llm_text' = texts[1]
           /\ orig_text' = texts[2]
           /\ last_chunk' = (texts[1] = texts[2])
    /\ pc' = "gp_get"
    /\ iter' = iter + 1
    /\ ckpt' = LoopHead
    /\ UNCHANGED <<doc, cache, all_words, result_paragraphs, paragraphs,
                   retry_number, retries, content, run, call, requested,
                   faithful, prev, titles_locals, ct_frame>>
    /\ last_ntw' = NoNtw

(***************************************************************************)
(* The segmentation call, get_paragraphs                                   *)
(***************************************************************************)
\* The cache lookup: on a hit the cached paragraphs are returned, on a miss
\* the retry loop is entered.
get_paragraphs_lookup ==
    /\ pc = "gp_get"
    /\ LET call_hash == get_paragraphs_call_hash(llm_text)
           got == get_data_sync(cache, call_hash, "Vec<String>")
       IN  \/ /\ got.tag = "Ok"
              /\ paragraphs' = got.value
              /\ pc' = "after_gp"
              /\ call' = LookedUp("get_paragraphs", call_hash, TRUE)
              /\ UNCHANGED <<retry_number, retries>>
           \/ /\ got.tag = "None"
              /\ retry_number' = 1
              /\ retries' = <<>>
              /\ pc' = "gp_chat"
              /\ call' = LookedUp("get_paragraphs", call_hash, FALSE)
              /\ UNCHANGED paragraphs
    /\ UNCHANGED <<doc, cache, all_words, result_paragraphs, llm_text,
                   orig_text, last_chunk, content, run, iter, requested,
                   faithful, ckpt, prev, last_ntw, titles_locals, ct_frame>>

\* A threshold test that rejects the distance MAX_DISTANCE itself.
distance_too_high_inclusive(distance) == distance >= MAX_DISTANCE

\* distance > MAX_DISTANCE
distance_too_high(distance) == distance > MAX_DISTANCE

\* retry_number > (MAX_RETRIES - 1)
retries_exhausted(n) == n > (MAX_RETRIES - 1)

RECURSIVE LastMinFrom(_, _)
LastMinFrom(items, best) ==
    IF items = <<>> THEN best
    ELSE LastMinFrom(Tail(items),
                     IF Head(items)[1] <= best[1] THEN Head(items) ELSE best)

\* A choice that takes the last of the least distant answers.
best_res_last(rs) == LastMinFrom(Tail(rs), Head(rs))

\* retries.into_iter().min_by_key(|r| r.0)
best_res(rs) == min_by_key(rs, 1)

\* An answer that is the text's words in order, differently laid out, in at
\* least two paragraphs unless the text is the last chunk.
IsFaithful(answer, text, last) ==
    /\ split_whitespace(answer) = split_whitespace(text)
    /\ last \/ Len(parse_paragraphs(answer)) >= 2

\* One turn of the retry loop: the model answers; the answer is accepted, or
\* rejected for another attempt, or the least distant answer is taken.
get_paragraphs_chat ==
    /\ pc = "gp_chat"
    /\ \E answer \in Responses(llm_text) :
          LET distance == edit_distance(normalize(answer), llm_text)
          IN  /\ IF distance_too_high(distance)
                 THEN IF retries_exhausted(retry_number)
                      THEN /\ content' = best_res(Append(retries, <<distance, answer>>))[2]
                           /\ retries' = <<>>
                           /\ pc' = "gp_put"
                           /\ UNCHANGED retry_number
                      ELSE /\ retries' = Append(retries, <<distance, answer>>)
                           /\ retry_number' = retry_number + 1
                           /\ UNCHANGED <<content, pc>>
                 ELSE /\ content' = answer
                      /\ retries' = <<>>
                      /\ pc' = "gp_put"
                      /\ UNCHANGED retry_number
              /\ call' = [call EXCEPT !.requests = @ + 1,
                                      !.answers = Append(@, <<distance, answer>>)]
              /\ faithful' = (faithful /\ IsFaithful(answer, llm_text, last_chunk))
    /\ requested' = TRUE
    /\ UNCHANGED <<doc, cache, all_words, result_paragraphs, llm_text,
                   orig_text, last_chunk, paragraphs, run, iter, ckpt, prev,
                   last_ntw, titles_locals, ct_frame>>

\* run_chat fails: the error ends the call and the run.
get_paragraphs_chat_error ==
    /\ pc = "gp_chat"
    /\ pc' = "failed"
    /\ DropLocals
    /\ call' = [call EXCEPT !.requests = @ + 1, !.answers = <<>>]
    /\ requested' = TRUE
    /\ faithful' = FALSE
    /\ UNCHANGED <<doc, cache, run, iter, ckpt, prev, last_ntw, ct_frame>>

\* A store that caches the accepted response unparsed, as one paragraph.
get_paragraphs_store_raw ==
    /\ pc = "gp_put"
    /\ paragraphs' = parse_paragraphs(content)
    /\ cache' = put_data_sync(cache, get_paragraphs_call_hash(llm_text),
                              to_vec_strings(<<normalize(content)>>))
    /\ DropCallLocals
    /\ pc' = "after_gp"
    /\ UNCHANGED <<doc, all_words, result_paragraphs, llm_text, orig_text,
                   last_chunk, history, titles_locals, ct_frame>>

\* The accepted response is parsed, the paragraphs cached and returned.
get_paragraphs_store ==
    /\ pc = "gp_put"
    /\ paragraphs' = parse_paragraphs(content)
    /\ cache' = put_data_sync(cache, get_paragraphs_call_hash(llm_text),
                              to_vec_strings(parse_paragraphs(content)))
    /\ DropCallLocals
    /\ pc' = "after_gp"
    /\ UNCHANGED <<doc, all_words, result_paragraphs, llm_text, orig_text,
                   last_chunk, history, titles_locals, ct_frame>>

(***************************************************************************)
(* The chunk driver after the segmentation call                            *)
(***************************************************************************)
\* A slice that keeps the last paragraph too.
accepted_of_all(ps) == ps

\* paragraphs[0..paragraphs.len() - 1]
accepted_of(ps) == SubSeq(ps, 1, Len(ps) - 1)

\* An extension that leaves the last of the items out.
extend_all_but_last(v, items) == v \o accepted_of(items)

\* Vec::extend
extend(v, items) == v \o items

\* A test that lets a single paragraph through.
too_few_paragraphs_none(ps) == Len(ps) < 1

\* paragraphs.len() < 2
too_few_paragraphs(ps) == Len(ps) < 2

\* The last chunk ends the loop, and words_to_paragraphs returns: to
\* run_structify_text, which writes the paragraphs to the text file, or to
\* create_titles.  Otherwise too few paragraphs fail the run, or all but the
\* last paragraph are accepted.
after_get_paragraphs ==
    /\ pc = "after_gp"
    /\ \/ /\ last_chunk
          /\ result_paragraphs' = extend(result_paragraphs, paragraphs)
          /\ all_words' = <<>>
          /\ DropIterationLocals
          /\ IF caller = "run_structify_text"
             THEN /\ files' = write_file(files, RESULT_FILE_EXT,
                                JoinWith(extend(result_paragraphs, paragraphs), <<NL, NL>>))
                  /\ pc' = "done"
             ELSE /\ pc' = "sections"
                  /\ UNCHANGED files
          /\ UNCHANGED titles_locals
       \/ /\ ~last_chunk
          /\ too_few_paragraphs(paragraphs)
          /\ DropLocals
          /\ pc' = "failed"
          /\ UNCHANGED files
       \/ /\ ~last_chunk
          /\ ~too_few_paragraphs(paragraphs)
          /\ result_paragraphs' = extend(result_paragraphs, accepted_of(paragraphs))
          /\ pc' = "ntw"
          /\ UNCHANGED <<all_words, llm_text, orig_text, last_chunk,
                         paragraphs, retry_number, retries, content,
                         titles_locals, files>>
    /\ call' = NoCall
    /\ UNCHANGED <<doc, cache, run, iter, requested, faithful, ckpt, prev,
                   last_ntw, caller, ct_paragraphs, fn_args, fn_ret>>

\* get_next_text_words on the accepted paragraphs: the cached result, or the
\* computed one, cached; the live stream becomes the words it returns.
get_next_text_words ==
    /\ pc = "ntw"
    /\ LET accepted == accepted_of(paragraphs)
           call_hash == get_next_text_words_call_hash(accepted, orig_text)
           got == get_data_sync(cache, call_hash, "NextTextWordsRes")
           res == compute_next_text_words(accepted, orig_text)
       IN  \/ /\ got.tag = "Ok"
              /\ all_words' = got.value.words
              /\ DropIterationLocals
              /\ pc' = "loop"
              /\ last_ntw' = [tag |-> "Ok", hit |-> TRUE, accepted |-> accepted,
                              orig_text |-> orig_text, res |-> got.value]
              /\ UNCHANGED <<cache, result_paragraphs, titles_locals>>
           \/ /\ got.tag = "None"
              /\ res.tag = "Ok"
              /\ cache' = put_data_sync(cache, call_hash, to_vec_next(res.value))
              /\ all_words' = res.value.words
              /\ DropIterationLocals
              /\ pc' = "loop"
              /\ last_ntw' = [tag |-> "Ok", hit |-> FALSE, accepted |-> accepted,
                              orig_text |-> orig_text, res |-> res.value]
              /\ UNCHANGED <<result_paragraphs, titles_locals>>
           \/ /\ got.tag = "None"
              /\ res.tag = "Panic"
              /\ DropLocals
              /\ pc' = "panicked"
              /\ last_ntw' = [tag |-> "Panic", hit |-> FALSE,
                              accepted |-> accepted, orig_text |-> orig_text]
              /\ UNCHANGED cache
    /\ UNCHANGED <<doc, run, iter, call, requested, faithful, ckpt, prev,
                   ct_frame>>

(***************************************************************************)
(* summarize_paragraphs, as create_titles calls it                         *)
(***************************************************************************)
\* A loop that stays at the first paragraph.
src_par_first == ct_paragraphs[1]

\* The paragraph the loop of summarize_paragraphs is at.
src_par == ct_paragraphs[Len(result_summaries) + 1]

\* A lookup whose hit is ignored: the model is asked all the same.
summarize_paragraphs_lookup_hit_ignored ==
    /\ pc = "sum_get"
    /\ Len(result_summaries) < Len(ct_paragraphs)
    /\ LET call_hash == summarize_paragraphs_call_hash(src_par)
           got == get_data_sync(cache, call_hash, "String")
       IN  call' = LookedUp("summarize_paragraphs", call_hash, got.tag = "Ok")
    /\ pc' = "sum_chat"
    /\ ckpt' = LoopHead
    /\ UNCHANGED <<doc, cache, locals, run, iter, requested, faithful, prev,
                   last_ntw, titles_locals, ct_frame>>

\* One paragraph of the loop: the cache lookup; on a hit the cached summary
\* is pushed, on a miss the model is asked.
summarize_paragraphs_lookup ==
    /\ pc = "sum_get"
    /\ Len(result_summaries) < Len(ct_paragraphs)
    /\ LET call_hash == summarize_paragraphs_call_hash(src_par)
           got == get_data_sync(cache, call_hash, "String")
       IN  \/ /\ got.tag = "Ok"
              /\ result_summaries' = Append(result_summaries, got.value)
              /\ call' = LookedUp("summarize_paragraphs", call_hash, TRUE)
              /\ UNCHANGED pc
           \/ /\ got.tag = "None"
              /\ pc' = "sum_chat"
              /\ call' = LookedUp("summarize_paragraphs", call_hash, FALSE)
              /\ UNCHANGED result_summaries
    /\ ckpt' = LoopHead
    /\ UNCHANGED <<doc, cache, locals, run, iter, requested, faithful, prev,
                   last_ntw, summary, sections, summaries_words_p,
                   section_par_words, final_sections, text_with_sections,
                   ct_frame>>

\* The model answers with a summary.
summarize_paragraphs_chat ==
    /\ pc = "sum_chat"
    /\ \E answer \in SummaryResponses(src_par) : summary' = answer
    /\ pc' = "sum_put"
    /\ call' = [call EXCEPT !.requests = @ + 1]
    /\ requested' = TRUE
    /\ UNCHANGED <<doc, cache, locals, run, iter, faithful, ckpt, prev,
                   last_ntw, result_summaries, sections, summaries_words_p,
                   section_par_words, final_sections, text_with_sections,
                   ct_frame>>

\* run_chat fails: the error ends the run.
summarize_paragraphs_chat_error ==
    /\ pc = "sum_chat"
    /\ pc' = "failed"
    /\ DropLocals
    /\ call' = [call EXCEPT !.requests = @ + 1]
    /\ requested' = TRUE
    /\ UNCHANGED <<doc, cache, run, iter, faithful, ckpt, prev, last_ntw,
                   ct_frame>>

\* The summary is cached and pushed.
summarize_paragraphs_store ==
    /\ pc = "sum_put"
    /\ cache' = put_data_sync(cache, summarize_paragraphs_call_hash(src_par),
                              to_vec_string(summary))
    /\ result_summaries' = Append(result_summaries, summary)
    /\ summary' = <<>>
    /\ pc' = "sum_get"
    /\ UNCHANGED <<doc, locals, history, sections, summaries_words_p,
                   section_par_words, final_sections, text_with_sections,
                   ct_frame>>

\* The loop is over: create_titles writes the summaries file and calls
\* words_to_paragraphs on the summaries' words.
summarize_paragraphs_return ==
    /\ pc = "sum_get"
    /\ Len(result_summaries) = Len(ct_paragraphs)
    /\ files' = write_file(files, PARAGRAPHS_SUMMARY_FILE_EXT,
                           JoinWith(result_summaries, <<NL, NL>>))
    /\ pc' = "start"
    /\ call' = NoCall
    /\ UNCHANGED <<doc, cache, locals, run, iter, requested, faithful, ckpt,
                   prev, last_ntw, titles_locals, caller, ct_paragraphs, fn_args, fn_ret>>

(***************************************************************************)
(* create_titles after the sections are known                              *)
(***************************************************************************)
\* words_to_paragraphs has returned the sections: the sections file is
\* written and the walk over the tagged summary words begins.
write_sections ==
    /\ pc = "sections"
    /\ sections' = result_paragraphs
    /\ result_paragraphs' = <<>>
    /\ files' = write_file(files, "trakktor.sections.md",
                           JoinWith(result_paragraphs, <<NL, NL>>))
    /\ section_par_words' = <<>>
    /\ summaries_words_p' = summaries_words(result_summaries)
    /\ pc' = "walk"
    /\ UNCHANGED <<doc, cache, all_words, llm_text, orig_text, last_chunk,
                   paragraphs, retry_number, retries, content, history,
                   result_summaries, summary, final_sections,
                   text_with_sections, caller, ct_paragraphs, fn_args, fn_ret>>

\* One section of the walk: get_next_text_words tells how many of the
\* remaining tagged words the section covers; they are counted per
\* paragraph and sliced off.  A slice beyond the end panics.
section_walk ==
    /\ pc = "walk"
    /\ Len(section_par_words) < Len(sections)
    /\ LET section == sections[Len(section_par_words) + 1]
           text == current_text(summaries_words_p)
           next == get_next_text_words_call(cache, <<section>>, text)
       IN  /\ cache' = next.table
           /\ IF next.tag = "Ok"
              THEN IF next.value.skipped_words < Len(summaries_words_p)
                   THEN /\ section_par_words' =
                              Append(section_par_words,
                                     count_par_words(SubSeq(summaries_words_p, 1,
                                                next.value.skipped_words + 1)))
                        /\ summaries_words_p' =
                              SubSeq(summaries_words_p,
                                     next.value.skipped_words + 2,
                                     Len(summaries_words_p))
                        /\ UNCHANGED <<pc, locals, result_summaries, summary,
                                       sections, final_sections,
                                       text_with_sections>>
                   ELSE /\ pc' = "panicked"
                        /\ DropLocals
              ELSE /\ pc' = "panicked"
                   /\ DropLocals
           /\ last_ntw' = IF next.tag = "Ok"
                          THEN [tag |-> "Ok", hit |-> next.hit,
                                accepted |-> <<section>>, orig_text |-> text,
                                res |-> next.value]
                          ELSE [tag |-> "Panic", hit |-> FALSE,
                                accepted |-> <<section>>, orig_text |-> text]
    /\ ckpt' = LoopHead
    /\ UNCHANGED <<doc, run, iter, call, requested, faithful, prev, ct_frame>>

\* The walk is over: every paragraph goes to the section that holds most of
\* its summary's words, consecutive paragraphs of one section form a final
\* section; a paragraph left without a section fails the run.
assemble_sections ==
    /\ pc = "walk"
    /\ Len(section_par_words) = Len(sections)
    /\ IF not_all_paragraphs_used(section_par_words, ct_paragraphs)
       THEN /\ pc' = "failed"
            /\ DropLocals
       ELSE /\ pc' = "title_get"
            /\ final_sections' =
                  build_final_sections(section_par_words, ct_paragraphs)
            /\ text_with_sections' = <<>>
            /\ result_summaries' = <<>>
            /\ sections' = <<>>
            /\ summaries_words_p' = <<>>
            /\ section_par_words' = <<>>
            /\ UNCHANGED <<locals, summary>>
    /\ UNCHANGED <<doc, cache, history, ct_frame>>

(***************************************************************************)
(* get_section_title, as the loop over the final sections calls it         *)
(***************************************************************************)
\* One section of the loop: the cache lookup; on a hit the cached title and
\* the section's paragraphs are pushed, on a miss the model is asked.
get_section_title_lookup ==
    /\ pc = "title_get"
    /\ final_sections # <<>>
    /\ LET sec == Head(final_sections)
           call_hash == get_section_title_call_hash(sec)
           got == get_data_sync(cache, call_hash, "String")
       IN  \/ /\ got.tag = "Ok"
              /\ text_with_sections' =
                    text_with_sections \o section_text_with_title(got.value, sec)
              /\ final_sections' = Tail(final_sections)
              /\ call' = LookedUp("get_section_title", call_hash, TRUE)
              /\ UNCHANGED pc
           \/ /\ got.tag = "None"
              /\ pc' = "title_chat"
              /\ call' = LookedUp("get_section_title", call_hash, FALSE)
              /\ UNCHANGED <<text_with_sections, final_sections>>
    /\ ckpt' = LoopHead
    /\ UNCHANGED <<doc, cache, locals, run, iter, requested, faithful, prev,
                   last_ntw, result_summaries, summary, sections,
                   summaries_words_p, section_par_words, ct_frame>>

\* The model answers with a title for the section's text.
get_section_title_chat ==
    /\ pc = "title_chat"
    /\ \E answer \in TitleResponses(JoinWith(Head(final_sections), <<NL, NL>>)) :
          summary' = answer
    /\ pc' = "title_put"
    /\ call' = [call EXCEPT !.requests = @ + 1]
    /\ requested' = TRUE
    /\ UNCHANGED <<doc, cache, locals, run, iter, faithful, ckpt, prev,
                   last_ntw, result_summaries, sections, summaries_words_p,
                   section_par_words, final_sections, text_with_sections,
                   ct_frame>>

\* run_chat fails: the error ends the run.
get_section_title_chat_error ==
    /\ pc = "title_chat"
    /\ pc' = "failed"
    /\ DropLocals
    /\ call' = [call EXCEPT !.requests = @ + 1]
    /\ requested' = TRUE
    /\ UNCHANGED <<doc, cache, run, iter, faithful, ckpt, prev, last_ntw,
                   ct_frame>>

\* The title is cached and pushed with the section's paragraphs.
get_section_title_store ==
    /\ pc = "title_put"
    /\ cache' = put_data_sync(cache,
                              get_section_title_call_hash(Head(final_sections)),
                              to_vec_string(summary))
    /\ text_with_sections' =
          text_with_sections
              \o section_text_with_title(summary, Head(final_sections))
    /\ final_sections' = Tail(final_sections)
    /\ summary' = <<>>
    /\ pc' = "title_get"
    /\ UNCHANGED <<doc, locals, history, result_summaries, sections,
                   summaries_words_p, section_par_words, ct_frame>>

\* Every section has its title: the final file is written and create_titles
\* returns.
create_titles_return ==
    /\ pc = "title_get"
    /\ final_sections = <<>>
    /\ files' = write_file(files, "trakktor.final.md", text_with_sections)
    /\ pc' = "done"
    /\ DropLocals
    /\ call' = NoCall
    /\ UNCHANGED <<doc, cache, run, iter, requested, faithful, ckpt, prev,
                   last_ntw, caller, ct_paragraphs, fn_args, fn_ret>>

(***************************************************************************)
(* Runs                                                                    *)
(***************************************************************************)
\* The process is interrupted (killed) where it is.
interrupt ==
    /\ pc \in Running
    /\ pc' = "aborted"
    /\ DropLocals
    /\ call' = NoCall
    /\ UNCHANGED <<doc, cache, run, iter, requested, faithful, ckpt, prev,
                   last_ntw, ct_frame>>

\* The program is run again on the same document, with the cache file the
\* earlier runs left.
rerun ==
    /\ pc \in Ended
    /\ run < MaxRuns
    /\ pc' = IF caller = "run_structify_text" THEN "start" ELSE "sum_get"
    /\ DropLocals
    /\ run' = run + 1
    /\ iter' = 0
    /\ call' = NoCall
    /\ requested' = FALSE
    /\ ckpt' = NoCkpt
    /\ prev' = [pc |-> pc, result_paragraphs |-> result_paragraphs,
                ckpt |-> ckpt, keys |-> DOMAIN cache]
    /\ last_ntw' = NoNtw
    /\ UNCHANGED <<doc, cache, faithful, ct_frame>>

Next ==
    \/ words_to_paragraphs_begin
    \/ build_chunk
    \/ get_paragraphs_lookup
    \/ get_paragraphs_chat
    \/ get_paragraphs_chat_error
    \/ get_paragraphs_store
    \/ after_get_paragraphs
    \/ get_next_text_words
    \/ interrupt
    \/ rerun

Spec == Init /\ [][Next]_vars

\* Documents of more than twice CHUNK_WORDS_THRESHOLD words: one word more.
LongDocs ==
    {d \in [1..(2 * CHUNK_WORDS_THRESHOLD + 1) -> DocWords] : d[1] = <<"a">>}

\* run_structify_text at its call of words_to_paragraphs, on a long document.
LongInit ==
    /\ doc \in LongDocs
    /\ cache = <<>>
    /\ pc = "start"
    /\ all_words = <<>>
    /\ result_paragraphs = <<>>
    /\ llm_text = <<>>
    /\ orig_text = <<>>
    /\ last_chunk = FALSE
    /\ paragraphs = <<>>
    /\ retry_number = 0
    /\ retries = <<>>
    /\ content = <<>>
    /\ run = 1
    /\ iter = 0
    /\ call = NoCall
    /\ requested = FALSE
    /\ faithful = TRUE
    /\ ckpt = NoCkpt
    /\ prev = NoPrev
    /\ last_ntw = NoNtw
    /\ caller = "run_structify_text"
    /\ ct_paragraphs = <<>>
    /\ result_summaries = <<>>
    /\ summary = <<>>
    /\ sections = <<>>
    /\ summaries_words_p = <<>>
    /\ section_par_words = <<>>
    /\ final_sections = <<>>
    /\ text_with_sections = <<>>
    /\ files = <<>>
    /\ fn_args = <<>>
    /\ fn_ret = <<>>

\* Runs on the long documents.
LongSpec == LongInit /\ [][Next]_vars

\* The whitespace-split words of a sequence of paragraphs.
WordsOf(ps) == Concat([i \in 1..Len(ps) |-> split_whitespace(ps[i])])

\* The paragraphs of the documents' texts.
ParagraphTexts == {<<"a">>, <<"b">>, <<"a", SP, "b">>}

\* The paragraph lists a run of words_to_paragraphs on a document of one
\* chunk hands to create_titles; the first word is fixed as in Docs.
ParagraphLists ==
    {ps \in UNION {[1..n -> ParagraphTexts] : n \in 1..MaxParagraphs} :
        /\ ps[1][1] = "a"
        /\ Len(WordsOf(ps)) <= CHUNK_WORDS_THRESHOLD}

\* run_structify_text at its call of create_titles: the document was one
\* chunk, whose paragraphs are in the cache and in the text file.
TitlesInit ==
    /\ ct_paragraphs \in ParagraphLists
    /\ doc = WordsOf(ct_paragraphs)
    /\ cache = put_data_sync(<<>>,
                   get_paragraphs_call_hash(JoinWith(WordsOf(ct_paragraphs), <<SP>>)),
                   to_vec_strings(ct_paragraphs))
    /\ files = write_file(<<>>, RESULT_FILE_EXT, JoinWith(ct_paragraphs, <<NL, NL>>))
    /\ caller = "create_titles"
    /\ fn_args = <<>>
    /\ fn_ret = <<>>
    /\ pc = "sum_get"
    /\ all_words = <<>>
    /\ result_paragraphs = <<>>
    /\ llm_text = <<>>
    /\ orig_text = <<>>
    /\ last_chunk = FALSE
    /\ paragraphs = <<>>
    /\ retry_number = 0
    /\ retries = <<>>
    /\ content = <<>>
    /\ run = 1
    /\ iter = 0
    /\ call = NoCall
    /\ requested = FALSE
    /\ faithful = TRUE
    /\ ckpt = NoCkpt
    /\ prev = NoPrev
    /\ last_ntw = NoNtw
    /\ result_summaries = <<>>
    /\ summary = <<>>
    /\ sections = <<>>
    /\ summaries_words_p = <<>>
    /\ section_par_words = <<>>
    /\ final_sections = <<>>
    /\ text_with_sections = <<>>

TitlesNext ==
    \/ summarize_paragraphs_lookup
    \/ summarize_paragraphs_chat
    \/ summarize_paragraphs_chat_error
    \/ summarize_paragraphs_store
    \/ summarize_paragraphs_return
    \/ words_to_paragraphs_begin
    \/ build_chunk
    \/ get_paragraphs_lookup
    \/ get_paragraphs_chat
    \/ get_paragraphs_chat_error
    \/ get_paragraphs_store
    \/ after_get_paragraphs
    \/ get_next_text_words
    \/ write_sections
    \/ section_walk
    \/ assemble_sections
    \/ get_section_title_lookup
    \/ get_section_title_chat
    \/ get_section_title_chat_error
    \/ get_section_title_store
    \/ create_titles_return
    \/ interrupt
    \/ rerun

\* Runs of create_titles on the paragraphs of a document.
TitlesSpec == TitlesInit /\ [][TitlesNext]_vars

(***************************************************************************)
(* The cache keys of the model-bound calls, computed on their own: one     *)
(* call stores its result, a second call looks its own key up.             *)
(***************************************************************************)
\* Every variable of a run at rest: no run is under way.
Idle ==
    /\ doc = <<>>
    /\ all_words = <<>>
    /\ result_paragraphs = <<>>
    /\ llm_text = <<>>
    /\ orig_text = <<>>
    /\ last_chunk = FALSE
    /\ paragraphs = <<>>
    /\ retry_number = 0
    /\ retries = <<>>
    /\ content = <<>>
    /\ run = 1
    /\ iter = 0
    /\ call = NoCall
    /\ requested = FALSE
    /\ faithful = TRUE
    /\ ckpt = NoCkpt
    /\ prev = NoPrev
    /\ last_ntw = NoNtw
    /\ caller = "none"
    /\ ct_paragraphs = <<>>
    /\ result_summaries = <<>>
    /\ summary = <<>>
    /\ sections = <<>>
    /\ summaries_words_p = <<>>
    /\ section_par_words = <<>>
    /\ final_sections = <<>>
    /\ text_with_sections = <<>>
    /\ files = <<>>

\* What a step of a function applied on its own leaves alone.
idle_frame ==
    <<doc, locals, history, titles_locals, caller, ct_paragraphs, files>>

\* Provider configurations: the API key and the chat model are set or not;
\* one value can be the key of one configuration and the model of another.
ApiConfigs ==
    {[api_key |-> k, server_url |-> <<>>, chat_model |-> m,
      embeddings_model |-> <<>>] :
        k \in {<<>>, <<<<"m", "1">>>>},
        m \in {<<>>, <<<<"m", "1">>>>, <<<<"m", "2">>>>}}

\* Texts given to get_paragraphs and summarize_paragraphs.
KeyTexts == {<<>>, <<"a">>, <<"b">>, <<"a", NL, NL, "b">>}

\* Sections given to get_section_title; the last is one paragraph whose
\* text reads like the separator between two.
KeySections ==
    {<<>>, <<<<"a">>>>, <<<<"a">>, <<"b">>>>,
     <<<<"a", "\"", ",", SP, "\"", "b">>>>}

\* The model-bound calls: operation, provider configuration, input.
KeyCalls ==
    {[op |-> o, api |-> c, input |-> t] :
        o \in {"get_paragraphs", "summarize_paragraphs"},
        c \in ApiConfigs, t \in KeyTexts}
    \cup {[op |-> "get_section_title", api |-> c, input |-> t] :
            c \in ApiConfigs, t \in KeySections}

\* The key the call's function computes.
model_bound_key(c) ==
    IF c.op = "get_paragraphs"
    THEN get_paragraphs_key(open_ai_config_hash(c.api), c.input)
    ELSE IF c.op = "summarize_paragraphs"
    THEN summarize_paragraphs_key(open_ai_config_hash(c.api), c.input)
    ELSE get_section_title_key(open_ai_config_hash(c.api), c.input)

\* The type of the call's cached result.
payload_type(c) == IF c.op = "get_paragraphs" THEN "Vec<String>" ELSE "String"

KeyInit ==
    /\ Idle
    /\ cache = <<>>
    /\ pc = "key_put"
    /\ fn_args \in KeyCalls \X KeyCalls
    /\ fn_ret = <<>>

\* The first call caches a result under its key.
key_store ==
    /\ pc = "key_put"
    /\ cache' = put_data_sync(cache, model_bound_key(fn_args[1]),
                  IF payload_type(fn_args[1]) = "String"
                  THEN to_vec_string(<<"p">>)
                  ELSE to_vec_strings(<<<<"p">>>>))
    /\ pc' = "key_get"
    /\ UNCHANGED <<idle_frame, fn_args, fn_ret>>

\* The second call looks its key up.
key_lookup ==
    /\ pc = "key_get"
    /\ fn_ret' = get_data_sync(cache, model_bound_key(fn_args[2]),
                               payload_type(fn_args[2]))
    /\ pc' = "key_done"
    /\ UNCHANGED <<idle_frame, cache, fn_args>>

KeyNext == key_store \/ key_lookup

KeySpec == KeyInit /\ [][KeyNext]_vars

(***************************************************************************)
(* get_next_text_words applied on its own, twice on the same arguments:    *)
(* the first call computes and caches, the second finds the entry.         *)
(***************************************************************************)
\* The greatest number of words in an original text given to the function.
MaxReconWords == 5

\* The greatest number of words in an accepted paragraph given to it.
MaxParWords == 3

\* The word lists of 1 to n words.
WordLists(n) == UNION {[1..m -> DocWords] : m \in 1..n}

\* Original texts: as words_to_paragraphs builds them, the words of a stream
\* longer than one chunk, joined by single spaces.
ReconTexts ==
    {JoinWith(ws, <<SP>>) : ws \in {w \in WordLists(MaxReconWords) :
                                       Len(w) > CHUNK_WORDS_THRESHOLD}}

\* Accepted paragraphs: as get_paragraphs returns them, at least one, each
\* of at least one word, the words parted by single spaces.
ReconAccepted ==
    LET pars == {JoinWith(ws, <<SP>>) : ws \in WordLists(MaxParWords)}
    IN  UNION {[1..n -> pars] : n \in 1..MaxParagraphs}

\* Accepted paragraphs "A B C", "D E" ...
ExampleAccepted == <<<<"A", SP, "B", SP, "C">>, <<"D", SP, "E">>>>

\* ... of the original text "A B C D E F".
ExampleText == <<"A", SP, "B", SP, "C", SP, "D", SP, "E", SP, "F">>

ReconInit ==
    /\ Idle
    /\ cache = <<>>
    /\ pc = "recon"
    /\ fn_args \in (ReconAccepted \X ReconTexts)
                      \cup {<<ExampleAccepted, ExampleText>>}
    /\ fn_ret = <<>>

\* The call on an empty cache: the result is computed and cached, or the
\* call panics.
reconcile ==
    /\ pc = "recon"
    /\ LET r == get_next_text_words_call(cache, fn_args[1], fn_args[2])
       IN  /\ fn_ret' = <<r>>
           /\ cache' = r.table
           /\ pc' = IF r.tag = "Ok" THEN "recon_again" ELSE "recon_panicked"
    /\ UNCHANGED <<idle_frame, fn_args>>

\* The same call again, on the cache the first call left.
reconcile_again ==
    /\ pc = "recon_again"
    /\ LET r == get_next_text_words_call(cache, fn_args[1], fn_args[2])
       IN  /\ fn_ret' = Append(fn_ret, r)
           /\ cache' = r.table
    /\ pc' = "recon_done"
    /\ UNCHANGED <<idle_frame, fn_args>>

ReconNext == reconcile \/ reconcile_again

ReconSpec == ReconInit /\ [][ReconNext]_vars

(***************************************************************************)
(* The paragraph parsing of get_paragraphs applied on its own, to the      *)
(* responses of up to MaxContentLen characters: letters, spaces, line      *)
(* feeds and carriage returns.                                             *)
(***************************************************************************)
MaxContentLen == 6

ContentChars == {"a", "b", SP, NL, CR}

ParseContents == UNION {[1..n -> ContentChars] : n \in 0..MaxContentLen}

ParseInit ==
    /\ Idle
    /\ cache = <<>>
    /\ pc = "parse"
    /\ fn_args \in {<<c>> : c \in ParseContents}
    /\ fn_ret = <<>>

\* The accepted response is parsed.
parse ==
    /\ pc = "parse"
    /\ fn_ret' = <<parse_paragraphs(fn_args[1])>>
    /\ pc' = "parsed"
    /\ UNCHANGED <<idle_frame, cache, fn_args>>

ParseNext == parse

ParseSpec == ParseInit /\ [][ParseNext]_vars

(***************************************************************************)
(* Runs of create_titles in which the cache store may fail: a read or a    *)
(* write transaction returns an error, or a stored payload does not        *)
(* decode.  Every cache call is followed by `?`; fn_ret lists the errors   *)
(* the cache calls have returned.                                          *)
(***************************************************************************)
\* A cache read is about to be made: get_data at the head of a model-bound
\* call or of get_next_text_words.
ReadPending ==
    \/ pc \in {"gp_get", "ntw"}
    \/ pc = "sum_get" /\ Len(result_summaries) < Len(ct_paragraphs)
    \/ pc = "title_get" /\ final_sections # <<>>
    \/ pc = "walk" /\ Len(section_par_words) < Len(sections)

\* The key of that read.
pending_key ==
    IF pc = "gp_get" THEN get_paragraphs_call_hash(llm_text)
    ELSE IF pc = "sum_get" THEN summarize_paragraphs_call_hash(src_par)
    ELSE IF pc = "title_get" THEN get_section_title_call_hash(Head(final_sections))
    ELSE IF pc = "ntw"
    THEN get_next_text_words_call_hash(accepted_of(paragraphs), orig_text)
    ELSE get_next_text_words_call_hash(
             <<sections[Len(section_par_words) + 1]>>,
             current_text(summaries_words_p))

\* A cache write is about to be made: put_data of a model-bound call, or of
\* get_next_text_words after a miss.
WritePending ==
    \/ pc \in {"gp_put", "sum_put", "title_put"}
    \/ /\ pc \in {"ntw", "walk"} /\ ReadPending
       /\ pending_key \notin DOMAIN cache
       /\ \/ pc = "walk"
          \/ compute_next_text_words(accepted_of(paragraphs), orig_text).tag = "Ok"

\* get_data fails (the read transaction, or the decoding of a stored
\* payload): the error ends the call and the run.
cache_get_error ==
    /\ ReadPending
    /\ \E kind \in {"ReadError"}
                     \cup (IF pending_key \in DOMAIN cache
                           THEN {"DecodeError"} ELSE {}) :
          fn_ret' = Append(fn_ret, Err(kind))
    /\ pc' = "failed"
    /\ DropLocals
    /\ call' = NoCall
    /\ UNCHANGED <<doc, cache, run, iter, requested, faithful, ckpt, prev,
                   last_ntw, caller, ct_paragraphs, files, fn_args>>

\* A cache error that is swallowed: the call goes on as after a miss.
cache_put_error_ignored ==
    /\ pc \in {"gp_put", "sum_put", "title_put"}
    /\ fn_ret' = Append(fn_ret, Err("WriteError"))
    /\ pc' = IF pc = "gp_put" THEN "after_gp"
             ELSE IF pc = "sum_put" THEN "sum_get" ELSE "title_get"
    /\ IF pc = "gp_put"
       THEN /\ paragraphs' = parse_paragraphs(content)
            /\ DropCallLocals
            /\ UNCHANGED <<all_words, result_paragraphs, llm_text, orig_text,
                           last_chunk, titles_locals>>
       ELSE IF pc = "sum_put"
       THEN /\ result_summaries' = Append(result_summaries, summary)
            /\ summary' = <<>>
            /\ UNCHANGED <<locals, sections, summaries_words_p,
                           section_par_words, final_sections,
                           text_with_sections>>
       ELSE /\ text_with_sections' =
                  text_with_sections
                      \o section_text_with_title(summary, Head(final_sections))
            /\ final_sections' = Tail(final_sections)
            /\ summary' = <<>>
            /\ UNCHANGED <<locals, result_summaries, sections,
                           summaries_words_p, section_par_words>>
    /\ UNCHANGED <<doc, cache, history, caller, ct_paragraphs, files, fn_args>>

\* put_data fails: nothing is committed, the error ends the call and the
\* run.
cache_put_error ==
    /\ WritePending
    /\ fn_ret' = Append(fn_ret, Err("WriteError"))
    /\ pc' = "failed"
    /\ DropLocals
    /\ call' = NoCall
    /\ UNCHANGED <<doc, cache, run, iter, requested, faithful, ckpt, prev,
                   last_ntw, caller, ct_paragraphs, files, fn_args>>

FaultNext == TitlesNext \/ cache_get_error \/ cache_put_error

FaultSpec == TitlesInit /\ [][FaultNext]_vars

(***************************************************************************)
(* The whole run: run_structify_text from the opening of the cache to the  *)
(* return of create_titles, with the failures of the cache and of the      *)
(* file writes.                                                            *)
(***************************************************************************)
\* The longest document of the whole runs: one word more than a chunk.
MaxStageWords == CHUNK_WORDS_THRESHOLD + 1

StageDocs == {d \in Docs : Len(d) <= MaxStageWords}

\* The output files in the order run_structify_text and create_titles write
\* them.
StageFiles ==
    <<RESULT_FILE_EXT, PARAGRAPHS_SUMMARY_FILE_EXT, "trakktor.sections.md",
      "trakktor.final.md">>

\* run_structify_text after the input is read: the cache is to be opened.
StageInit ==
    /\ doc \in StageDocs
    /\ cache = <<>>
    /\ pc = "open"
    /\ all_words = <<>>
    /\ result_paragraphs = <<>>
    /\ llm_text = <<>>
    /\ orig_text = <<>>
    /\ last_chunk = FALSE
    /\ paragraphs = <<>>
    /\ retry_number = 0
    /\ retries = <<>>
    /\ content = <<>>
    /\ run = 1
    /\ iter = 0
    /\ call = NoCall
    /\ requested = FALSE
    /\ faithful = TRUE
    /\ ckpt = NoCkpt
    /\ prev = NoPrev
    /\ last_ntw = NoNtw
    /\ caller = "run_structify_text"
    /\ ct_paragraphs = <<>>
    /\ result_summaries = <<>>
    /\ summary = <<>>
    /\ sections = <<>>
    /\ summaries_words_p = <<>>
    /\ section_par_words = <<>>
    /\ final_sections = <<>>
    /\ text_with_sections = <<>>
    /\ files = <<>>
    /\ fn_args = <<>>
    /\ fn_ret = <<>>

\* CallCache::open succeeds: the file is created if there was none, the
\* table too, and words_to_paragraphs is called on the document's words.
cache_open ==
    /\ pc = "open"
    /\ pc' = "start"
    /\ UNCHANGED <<doc, cache, locals, history, titles_locals, ct_frame>>

\* An open failure that is swallowed: the run goes on.
cache_open_error_ignored ==
    /\ pc = "open"
    /\ fn_ret' = Append(fn_ret, Err("OpenError"))
    /\ pc' = "start"
    /\ UNCHANGED <<doc, cache, locals, history, titles_locals, caller,
                   ct_paragraphs, files, fn_args>>

\* CallCache::open fails (the file, the transaction or the table): the `??`
\* returns the error from run_structify_text.
cache_open_error ==
    /\ pc = "open"
    /\ fn_ret' = Append(fn_ret, Err("OpenError"))
    /\ pc' = "failed"
    /\ UNCHANGED <<doc, cache, locals, history, titles_locals, caller,
                   ct_paragraphs, files, fn_args>>

\* The text file is written: run_structify_text calls create_titles on the
\* result, which calls summarize_paragraphs.
call_create_titles ==
    /\ pc = "done"
    /\ caller = "run_structify_text"
    /\ caller' = "create_titles"
    /\ ct_paragraphs' = result_paragraphs
    /\ pc' = "sum_get"
    /\ DropLocals
    /\ iter' = 0
    /\ call' = NoCall
    /\ ckpt' = NoCkpt
    /\ last_ntw' = NoNtw
    /\ UNCHANGED <<doc, cache, run, requested, faithful, prev, files, fn_args,
                   fn_ret>>

\* The file a write is about to be made to, "none" if no write is due.
pending_file ==
    IF pc = "after_gp" /\ last_chunk /\ caller = "run_structify_text"
    THEN RESULT_FILE_EXT
    ELSE IF pc = "sum_get" /\ Len(result_summaries) = Len(ct_paragraphs)
    THEN PARAGRAPHS_SUMMARY_FILE_EXT
    ELSE IF pc = "sections" THEN "trakktor.sections.md"
    ELSE IF pc = "title_get" /\ final_sections = <<>> THEN "trakktor.final.md"
    ELSE "none"

\* tokio::fs::write fails: the file is as it was, or created or truncated
\* with nothing written; the `?` returns the error.
file_write_error ==
    /\ pending_file # "none"
    /\ \/ UNCHANGED files
       \/ files' = write_file(files, pending_file, <<>>)
    /\ fn_ret' = Append(fn_ret, Err("IoError"))
    /\ pc' = "failed"
    /\ DropLocals
    /\ call' = NoCall
    /\ UNCHANGED <<doc, cache, run, iter, requested, faithful, ckpt, prev,
                   last_ntw, caller, ct_paragraphs, fn_args>>

StageNext ==
    \/ cache_open
    \/ cache_open_error
    \/ call_create_titles
    \/ file_write_error
    \/ summarize_paragraphs_lookup
    \/ summarize_paragraphs_chat
    \/ summarize_paragraphs_chat_error
    \/ summarize_paragraphs_store
    \/ summarize_paragraphs_return
    \/ words_to_paragraphs_begin
    \/ build_chunk
    \/ get_paragraphs_lookup
    \/ get_paragraphs_chat
    \/ get_paragraphs_chat_error
    \/ get_paragraphs_store
    \/ after_get_paragraphs
    \/ get_next_text_words
    \/ write_sections
    \/ section_walk
    \/ assemble_sections
    \/ get_section_title_lookup
    \/ get_section_title_chat
    \/ get_section_title_chat_error
    \/ get_section_title_store
    \/ create_titles_return
    \/ cache_get_error
    \/ cache_put_error
    \/ interrupt

\* Whole runs on the documents of at most MaxStageWords words.
StageSpec == StageInit /\ [][StageNext]_vars

\* The steps of the program itself.
Step ==
    \/ words_to_paragraphs_begin
    \/ build_chunk
    \/ get_paragraphs_lookup
    \/ get_paragraphs_chat
    \/ get_paragraphs_chat_error
    \/ get_paragraphs_store
    \/ after_get_paragraphs
    \/ get_next_text_words

\* The program keeps running until it ends and every model request returns,
\* with an answer or an error: weak fairness of Step, WF_vars(Step), with
\* ENABLED <<Step>>_vars written out as pc \in Running.
FairSpec == Spec /\ ([]<>(pc \notin Running) \/ []<><<Step>>_vars)

(***************************************************************************)
(* Properties                                                              *)
(***************************************************************************)
\* The get_paragraphs call under way went to the model (the lookup missed)
\* and its answers so far were all further than MAX_DISTANCE from the chunk.
AllTooFar ==
    /\ call.answers # <<>>
    /\ \A i \in 1..Len(call.answers) : call.answers[i][1] > MAX_DISTANCE

\* C1: End-to-end reconstruction under a faithful model.  If every answer
\* of the model so far was the chunk's words in order, only laid out in lines
\* and paragraphs, with at least 2 paragraphs for every non-final chunk, then
\* a run on a non-empty document that has ended otherwise than by a kill has
\* succeeded, and the words of its result paragraphs are the document's
\* words; at every loop head the words of the result so far followed by the
\* live stream are the document's words (nothing lost or sent twice at a
\* chunk boundary).
C1_FaithfulReconstruction ==
    (faithful /\ doc # <<>>) =>
        /\ pc \in {"done", "failed", "panicked"} =>
              (pc = "done" /\ WordsOf(result_paragraphs) = doc)
        /\ pc = "loop" => WordsOf(result_paragraphs) \o all_words = doc

\* A faithful run of three iterations has succeeded.
C1_Witness ==
    /\ faithful /\ pc = "done" /\ iter >= 3
    /\ WordsOf(result_paragraphs) = doc

\* C2: Idempotence.  In a run that follows a successful run on the same
\* document and cache, no model request is made, every get_paragraphs lookup
\* and every get_next_text_words lookup hits the cache, the run does not
\* fail, and when it is done its paragraphs are those of the run before.
C2_Idempotence ==
    (run > 1 /\ prev.pc = "done") =>
        /\ ~requested
        /\ pc \notin {"gp_chat", "gp_put", "failed", "panicked"}
        /\ pc = "after_gp" => call.hit
        /\ last_ntw.tag # "None" => (last_ntw.tag = "Ok" /\ last_ntw.hit)
        /\ pc = "done" => result_paragraphs = prev.result_paragraphs

\* A second run is done after a first run of at least two iterations.
C2_Witness ==
    /\ run > 1 /\ prev.pc = "done" /\ pc = "done" /\ iter >= 2
    /\ Len(result_paragraphs) >= 2

\* The positions at which a model request is about to be made, and those
\* at which its answer is about to be cached.
ChatSites == {"gp_chat", "sum_chat", "title_chat"}

StoreSites == {"gp_put", "sum_put", "title_put"}

\* The cache key of the model-bound call the run is inside of.
KeyOfCall ==
    IF pc \in {"gp_chat", "gp_put"} THEN get_paragraphs_call_hash(llm_text)
    ELSE IF pc \in {"sum_chat", "sum_put"}
    THEN summarize_paragraphs_call_hash(src_par)
    ELSE get_section_title_call_hash(Head(final_sections))

\* A key of one of the three model-bound operations.
ModelBound(key) ==
    key[2] \in {"get_paragraphs:", "summarize_paragraphs:", "get_section_title:"}

\* C3: Resumability.  In a run that follows another on the same document
\* and cache (aborted by an error, a panic or a kill, or not): no model
\* request is made for a key the cache held when the earlier run ended, that
\* is for a segmentation, summary or title call that had completed; while
\* the run is at a loop head the earlier run went beyond, it has made no
\* request at all and has not failed; and at the loop head where the earlier
\* run stopped its locals (the accumulated paragraphs, the live word
\* stream, the summaries, the sections, the text so far) are those the
\* earlier run had there.
C3_Resumability ==
    run > 1 =>
        /\ pc \in ChatSites => call.key \notin prev.keys
        /\ ckpt.n < prev.ckpt.n =>
              /\ ~requested
              /\ pc \notin ChatSites \cup StoreSites \cup {"failed", "panicked"}
        /\ ckpt.n = prev.ckpt.n => ckpt = prev.ckpt

\* A run killed after its first title call was cached is resumed: the
\* later run is back at the loop head of the kill, with the same locals and
\* no request made, and now asks for the second title.
C3_Witness ==
    /\ run > 1 /\ prev.pc = "aborted" /\ pc = "title_chat" /\ ~requested
    /\ ckpt.n = prev.ckpt.n /\ ckpt = prev.ckpt
    /\ \E k \in prev.keys : k[2] = "get_section_title:"
    /\ \E k \in prev.keys : k[2] = "summarize_paragraphs:"

\* C4: Progress.  Whenever get_next_text_words returns a result (computed
\* or cached) for non-empty accepted paragraphs, 0 <= skipped_words <
\* the number of words of the remainder it was given, the words it returns
\* are fewer than those, and they are the driver's next live stream.
C4_Progress ==
    (last_ntw.tag = "Ok" /\ last_ntw.accepted # <<>>) =>
        LET n == Len(split_whitespace(last_ntw.orig_text))
        IN  /\ 0 <= last_ntw.res.skipped_words
            /\ last_ntw.res.skipped_words < n
            /\ Len(last_ntw.res.words) < n
            /\ pc = "loop" => (all_words = last_ntw.res.words
                               /\ Len(all_words) < Len(ckpt.all_words))

\* The reconciler returned skipped_words = 0: exactly one word is dropped.
C4_Witness ==
    /\ last_ntw.tag = "Ok" /\ ~last_ntw.hit /\ pc = "loop"
    /\ last_ntw.res.skipped_words = 0
    /\ Len(all_words) = Len(ckpt.all_words) - 1

\* C5: Scan window non-emptiness.  Whenever get_next_text_words is called
\* with non-empty accepted paragraphs it records at least one candidate and
\* returns a result; it never aborts.
C5_ScanWindowNonEmpty ==
    (last_ntw.tag # "None" /\ last_ntw.accepted # <<>>) =>
        /\ scan_candidates(last_ntw.accepted, last_ntw.orig_text) # <<>>
        /\ last_ntw.tag = "Ok"

\* C6: Termination.  In every run in which each model request returns
\* (FairSpec), the chunk driver begins at most as many loop iterations as
\* the document has words, and a run under way ends: done, failed, panicked
\* or killed.
C6_Termination ==
    /\ [](iter <= Len(doc))
    /\ (pc \in Running) ~> (pc \in Ended)

\* A run has ended after as many iterations as the document has words,
\* less one: every iteration but the last dropped a single word.
C6_Witness ==
    /\ pc = "done" /\ Len(doc) = MaxDocWords
    /\ iter = Len(doc) - CHUNK_WORDS_THRESHOLD + 1

\* C7: Fidelity fallback.  When every answer of a get_paragraphs call was
\* further than MAX_DISTANCE and the call has left its retry loop, it made
\* exactly MAX_RETRIES requests and took the answer of least distance, the
\* earliest of them on a tie; the paragraphs it returns are that answer's.
\* Inside the loop fewer than MAX_RETRIES requests have been made.
C7_FidelityFallback ==
    /\ (pc \in {"gp_put", "after_gp"} /\ AllTooFar) =>
          /\ call.requests = MAX_RETRIES
          /\ Len(call.answers) = MAX_RETRIES
          /\ \E j \in 1..Len(call.answers) :
                /\ \A k \in 1..Len(call.answers) :
                      call.answers[j][1] <= call.answers[k][1]
                /\ \A k \in 1..(j - 1) : call.answers[k][1] > call.answers[j][1]
                /\ pc = "gp_put" => content = call.answers[j][2]
                /\ pc = "after_gp" =>
                      paragraphs = parse_paragraphs(call.answers[j][2])
    /\ pc = "gp_chat" => call.requests < MAX_RETRIES

\* The fallback took the first of two equally distant answers that parse
\* differently.
C7_Witness ==
    /\ pc = "after_gp" /\ AllTooFar
    /\ call.answers[1][1] = call.answers[2][1]
    /\ parse_paragraphs(call.answers[1][2]) # parse_paragraphs(call.answers[2][2])
    /\ paragraphs = parse_paragraphs(call.answers[1][2])

\* C8: Fidelity acceptance.  In a get_paragraphs call that went to the
\* model: every answer but the last was further than MAX_DISTANCE (the first
\* answer within MAX_DISTANCE ends the loop); a last answer within
\* MAX_DISTANCE is the one accepted and parsed; an answer further than
\* MAX_DISTANCE is accepted only as the MAX_RETRIES-th; the requests made are
\* the answers received, never more than MAX_RETRIES.
C8_FidelityAcceptance ==
    LET n == Len(call.answers)
    IN  /\ call.requests <= MAX_RETRIES
        /\ pc = "gp_chat" =>
              /\ call.requests = n /\ n < MAX_RETRIES
              /\ \A i \in 1..n : call.answers[i][1] > MAX_DISTANCE
        /\ (pc \in {"gp_put", "after_gp"} /\ ~call.hit) =>
              /\ call.requests = n /\ n >= 1
              /\ \A i \in 1..(n - 1) : call.answers[i][1] > MAX_DISTANCE
              /\ call.answers[n][1] <= MAX_DISTANCE =>
                    /\ pc = "gp_put" => content = call.answers[n][2]
                    /\ pc = "after_gp" =>
                          paragraphs = parse_paragraphs(call.answers[n][2])
              /\ call.answers[n][1] > MAX_DISTANCE => n = MAX_RETRIES

\* An answer at distance MAX_DISTANCE + 1 was rejected and the next, at
\* distance MAX_DISTANCE exactly, accepted.
C8_Witness ==
    /\ pc = "gp_put" /\ Len(call.answers) = 2
    /\ call.answers[1][1] = MAX_DISTANCE + 1
    /\ call.answers[2][1] = MAX_DISTANCE
    /\ content = call.answers[2][2]

\* C9: When get_paragraphs returns after a cache miss, the cache binds the
\* call's key to a payload that decodes to exactly the paragraphs returned,
\* also after the fallback: a lookup of the key now returns that list.
C9_StoredIsReturned ==
    (pc = "after_gp" /\ ~call.hit) =>
        LET call_hash == get_paragraphs_call_hash(llm_text)
        IN  /\ call_hash \in DOMAIN cache
            /\ get_data_sync(cache, call_hash, "Vec<String>") = Ok(paragraphs)

\* get_paragraphs has returned two paragraphs taken by the fallback.
C9_Witness ==
    /\ pc = "after_gp" /\ ~call.hit /\ AllTooFar
    /\ Len(paragraphs) >= 2

\* C10: Cache-first ordering at the three model-bound call sites.  A
\* run is about to make a model request, or to cache the answer, only when
\* the lookup of the call's own key missed in this call, and the key is
\* still unbound; after a hit no request is made in the call and what the
\* call returns (the paragraphs, the summary pushed, the title pushed) is
\* the decoded payload of the key; every step that makes a request, and
\* every step that binds or rebinds a model-bound key, belongs to a call
\* whose lookup of that key missed, and the write comes after a request.
C10_CacheFirst ==
    /\ [](pc \in ChatSites \cup StoreSites =>
            /\ call.miss /\ ~call.hit
            /\ call.key = KeyOfCall
            /\ call.key \notin DOMAIN cache)
    /\ [](call.hit =>
            /\ call.requests = 0
            /\ call.key \in DOMAIN cache
            /\ pc \notin ChatSites \cup StoreSites
            /\ (call.op = "get_paragraphs" /\ pc = "after_gp") =>
                  Ok(paragraphs) = from_slice_strings(cache[call.key])
            /\ call.op = "summarize_paragraphs" =>
                  /\ result_summaries = Append(ckpt.titles[1], result_summaries[Len(result_summaries)])
                  /\ Ok(result_summaries[Len(result_summaries)])
                        = from_slice_string(cache[call.key])
            /\ call.op = "get_section_title" =>
                  text_with_sections = ckpt.titles[7] \o
                      section_text_with_title(from_slice_string(cache[call.key]).value,
                                              Head(ckpt.titles[6])))
    /\ [][/\ call'.requests > call.requests =>
              (pc \in ChatSites /\ call.miss /\ call.key = KeyOfCall)
          /\ \A k \in DOMAIN cache' :
                (ModelBound(k) /\ (k \notin DOMAIN cache \/ cache'[k] # cache[k])) =>
                    /\ pc \in StoreSites
                    /\ call.miss /\ call.requests >= 1
                    /\ k = call.key /\ k = KeyOfCall]_vars

\* In a later run, after lookups that hit, the lookup of a section title's
\* key missed, the model was asked once and its answer is about to be cached.
C10_Witness ==
    /\ run > 1 /\ pc = "title_put"
    /\ call.op = "get_section_title" /\ call.miss /\ call.requests = 1
    /\ call.key \notin DOMAIN cache
    /\ \E k \in DOMAIN cache : k[2] = "get_section_title:"

\* A step that performs a put: the store of a model-bound call, or a
\* get_next_text_words call (in the driver or in the section walk) that
\* returned a result it did not find in the cache.
PutStep ==
    \/ pc \in StoreSites /\ pc' # "aborted"
    \/ pc = "ntw" /\ pc' = "loop" /\ ~last_ntw'.hit
    \/ /\ pc = "walk" /\ ckpt'.n # ckpt.n
       /\ last_ntw'.tag = "Ok" /\ ~last_ntw'.hit

\* C11: Write-once cache entries.  Over the runs of create_titles on a
\* cache file (summary, segmentation, reconciliation and title calls, two
\* identical paragraphs among the inputs, later runs on the cache of earlier
\* ones): no step unbinds a key or changes the payload bound to it, and
\* every step that performs a put binds a key that was not bound.
C11_WriteOnce ==
    [][/\ \A k \in DOMAIN cache : k \in DOMAIN cache' /\ cache'[k] = cache[k]
       /\ PutStep => \E k \in DOMAIN cache' : k \notin DOMAIN cache]_vars

\* A later run on two identical paragraphs is done, having made a request
\* of its own; the cache holds entries of the four kinds of call.
C11_Witness ==
    /\ run > 1 /\ pc = "done" /\ requested
    /\ Len(ct_paragraphs) = 2 /\ ct_paragraphs[1] = ct_paragraphs[2]
    /\ \A tag \in {"get_paragraphs:", "summarize_paragraphs:",
                   "get_section_title:", "get_next_text_words:"} :
          \E k \in DOMAIN cache : k[2] = tag

\* Two model-bound calls are the same call: operation, provider
\* configuration and input agree (the prompt is fixed by the operation).
SameCall(a, b) == a.op = b.op /\ a.api = b.api /\ a.input = b.input

\* C12: Cache key determinism.  Two model-bound calls of the same
\* operation, provider configuration and input compute the same key; calls
\* that differ in the operation, in the provider configuration (whose
\* fingerprints then differ too) or in the input compute different keys; so
\* the lookup of the second call finds what the first stored only if they
\* are the same call, and finds nothing after a change of the provider
\* configuration, such as another chat model.
C12_KeyDeterminism ==
    pc \in {"key_put", "key_get", "key_done"} =>
        LET a == fn_args[1]
            b == fn_args[2]
        IN  /\ SameCall(a, b) => model_bound_key(a) = model_bound_key(b)
            /\ ~SameCall(a, b) => model_bound_key(a) # model_bound_key(b)
            /\ a.api # b.api =>
                  open_ai_config_hash(a.api) # open_ai_config_hash(b.api)
            /\ pc = "key_done" =>
                  /\ (fn_ret.tag = "Ok") = SameCall(a, b)
                  /\ a.api # b.api => fn_ret.tag = "None"

\* The second call differs from the first in the chat model only, and its
\* lookup found nothing.
C12_Witness ==
    /\ pc = "key_done" /\ fn_ret.tag = "None"
    /\ fn_args[1].op = fn_args[2].op
    /\ fn_args[1].input = fn_args[2].input
    /\ fn_args[1].api.chat_model # fn_args[2].api.chat_model
    /\ fn_args[1].api.api_key = fn_args[2].api.api_key


\* C13: EmptyInput.  On a document of no words the chunk driver fails at
\* once: the run is at its entry or has failed there (or was killed at the
\* entry), no loop iteration was begun, no model request made, the cache
\* neither read nor written, no paragraph produced, and no text file
\* written, in the first run as in a later one.
C13_EmptyInput ==
    doc = <<>> =>
        /\ pc \in {"start", "failed", "aborted"}
        /\ prev.pc \in {"none", "failed", "aborted"}
        /\ iter = 0
        /\ ~requested
        /\ call = NoCall /\ last_ntw = NoNtw
        /\ cache = <<>>
        /\ all_words = <<>> /\ result_paragraphs = <<>>
        /\ files = <<>>

\* The run on the empty document has failed, for the second time.
C13_Witness == doc = <<>> /\ pc = "failed" /\ run = 2 /\ prev.pc = "failed"


\* C14: InsufficientSegmentation.  When get_paragraphs has returned fewer
\* than two paragraphs for a chunk that is not the last, the run fails there
\* (unless it is killed there): get_next_text_words is not called, so nothing
\* is cached and the stream is not advanced, the paragraphs accumulated from
\* the earlier chunks are dropped, and no file is written.
C14_InsufficientSegmentation ==
    [][(pc = "after_gp" /\ ~last_chunk /\ Len(paragraphs) < 2) =>
          /\ pc' \in {"failed", "aborted"}
          /\ last_ntw' = NoNtw
          /\ cache' = cache
          /\ all_words' = <<>>
          /\ result_paragraphs' = <<>>
          /\ files' = files]_vars

\* The second iteration of a run failed on too few paragraphs (no model
\* call is under way, as after a failed request), after the first iteration
\* had accepted paragraphs.
C14_Witness ==
    /\ pc = "failed" /\ call = NoCall
    /\ iter = 2
    /\ ckpt.result_paragraphs # <<>>
    /\ Len(ckpt.all_words) > CHUNK_WORDS_THRESHOLD
    /\ result_paragraphs = <<>>


\* C15: Chunk formation.  Throughout an iteration the text sent to the
\* model is the first min(len, CHUNK_WORDS_THRESHOLD) words of the live
\* stream joined by single spaces, so never more than CHUNK_WORDS_THRESHOLD
\* words, the remainder text is all of the stream's words so joined, and
\* last_chunk holds if and only if the stream has at most
\* CHUNK_WORDS_THRESHOLD words.
C15_ChunkFormation ==
    pc \in {"gp_get", "gp_chat", "gp_put", "after_gp", "ntw"} =>
        /\ llm_text = JoinWith(SubSeq(all_words, 1,
                          Min2(Len(all_words), CHUNK_WORDS_THRESHOLD)), <<SP>>)
        /\ Len(split_whitespace(llm_text)) <= CHUNK_WORDS_THRESHOLD
        /\ orig_text = JoinWith(all_words, <<SP>>)
        /\ last_chunk <=> Len(all_words) <= CHUNK_WORDS_THRESHOLD

\* A document of one word more than the threshold was not a last chunk; at
\* the second iteration exactly CHUNK_WORDS_THRESHOLD words remain, and they
\* are the last chunk.
C15_Witness ==
    /\ Len(doc) = CHUNK_WORDS_THRESHOLD + 1
    /\ pc = "gp_get" /\ iter = 2
    /\ Len(all_words) = CHUNK_WORDS_THRESHOLD
    /\ last_chunk


\* C16: Last chunk.  At the iteration where last_chunk holds, the step after
\* get_paragraphs (unless the run is killed there) appends every returned
\* paragraph, however few, to the result and ends the run successfully, the
\* result written to the text file, without a call of get_next_text_words
\* and so without a cache access; and a run ends successfully only by that
\* step.
C16_LastChunk ==
    [][/\ (pc = "after_gp" /\ last_chunk /\ pc' # "aborted") =>
             /\ pc' = "done"
             /\ result_paragraphs' = result_paragraphs \o paragraphs
             /\ files' = [f \in {RESULT_FILE_EXT} |->
                            JoinWith(result_paragraphs \o paragraphs, <<NL, NL>>)]
             /\ last_ntw' = NoNtw
             /\ cache' = cache
       /\ (pc' = "done" /\ pc # "done") => (pc = "after_gp" /\ last_chunk)]_vars

\* A run of two iterations has ended successfully; its last chunk was
\* returned as a single paragraph, which is the last of the result.
C16_Witness ==
    /\ pc = "done" /\ iter = 2
    /\ Len(ckpt.all_words) <= CHUNK_WORDS_THRESHOLD
    /\ Len(result_paragraphs) = Len(ckpt.result_paragraphs) + 1
    /\ RESULT_FILE_EXT \in DOMAIN files
    /\ files[RESULT_FILE_EXT] = JoinWith(result_paragraphs, <<NL, NL>>)


\* The words of the accepted paragraphs given to get_next_text_words.
ReconAcceptedWords == WordsOf(fn_args[1])

\* The words of the original text given to it.
ReconOrigWords == split_whitespace(fn_args[2])

\* C17: Exact-match reconciliation.  When the words of the accepted
\* paragraphs are exactly the first k words (k >= 1) of the original text,
\* get_next_text_words returns, computed or from the cache, skipped_words =
\* k - 1, distance = 0 and as words the original words from index k on; for
\* the paragraphs "A B C", "D E" of "A B C D E F" it returns skipped_words =
\* 4 and the words ["F"].
C17_ExactMatch ==
    pc \in {"recon_again", "recon_done", "recon_panicked"} =>
        LET k == Len(ReconAcceptedWords)
            n == Len(ReconOrigWords)
        IN  /\ (k >= 1 /\ k <= n /\ ReconAcceptedWords = SubSeq(ReconOrigWords, 1, k)) =>
                  \A j \in 1..Len(fn_ret) :
                      /\ fn_ret[j].tag = "Ok"
                      /\ fn_ret[j].value.skipped_words = k - 1
                      /\ fn_ret[j].value.distance = 0
                      /\ fn_ret[j].value.words = SubSeq(ReconOrigWords, k + 1, n)
            /\ fn_args = <<ExampleAccepted, ExampleText>> =>
                  \A j \in 1..Len(fn_ret) :
                      /\ fn_ret[j].tag = "Ok"
                      /\ fn_ret[j].value.skipped_words = 4
                      /\ fn_ret[j].value.words = <<<<"F">>>>

\* The call on "A B C", "D E" and "A B C D E F" was made twice; the second
\* result came from the cache.
C17_Witness ==
    /\ pc = "recon_done"
    /\ fn_args = <<ExampleAccepted, ExampleText>>
    /\ ~fn_ret[1].hit /\ fn_ret[2].hit
    /\ fn_ret[2].value.skipped_words = 4


Max2(a, b) == IF a > b THEN a ELSE b

\* The (0-based) indices of the original words that lie in the scan window
\* of an accepted text of n words.
ScanWindow(n) ==
    {i \in 0..(Len(ReconOrigWords) - 1) :
        Max2(n - CHECK_WORDS, 0) <= i /\ i <= n + CHECK_WORDS}

\* C18: Reconciler selection.  With N the number of accepted words, the
\* candidates the scan records are, in ascending order and each once, the
\* indices i of the original words with max(N - CHECK_WORDS, 0) <= i <=
\* N + CHECK_WORDS, each with the edit distance between the accepted words
\* joined by spaces and the first i + 1 original words joined by spaces;
\* the call panics exactly when there is no candidate, and otherwise
\* returns as distance the least of the candidates' distances and as
\* skipped_words the smallest candidate index of that distance.
C18_Selection ==
    pc \in {"recon_again", "recon_done", "recon_panicked"} =>
        LET N == Len(ReconAcceptedWords)
            M == JoinWith(ReconAcceptedWords, <<SP>>)
            dist == scan_candidates(fn_args[1], fn_args[2])
        IN  /\ {dist[j][1] : j \in 1..Len(dist)} = ScanWindow(N)
            /\ \A j \in 1..(Len(dist) - 1) : dist[j][1] < dist[j + 1][1]
            /\ \A j \in 1..Len(dist) :
                  dist[j][2] = edit_distance(M,
                      JoinWith(SubSeq(ReconOrigWords, 1, dist[j][1] + 1), <<SP>>))
            /\ (fn_ret[1].tag = "Panic") <=> (ScanWindow(N) = {})
            /\ \A r \in 1..Len(fn_ret) :
                  fn_ret[r].tag = "Ok" =>
                      /\ \E j \in 1..Len(dist) :
                            /\ dist[j][1] = fn_ret[r].value.skipped_words
                            /\ dist[j][2] = fn_ret[r].value.distance
                      /\ \A j \in 1..Len(dist) :
                            /\ dist[j][2] >= fn_ret[r].value.distance
                            /\ dist[j][2] = fn_ret[r].value.distance =>
                                  dist[j][1] >= fn_ret[r].value.skipped_words

\* Fewer accepted words than CHECK_WORDS, so that the window starts at the
\* first word, and an original text that goes on beyond the window.
C18_Witness ==
    /\ pc = "recon_done"
    /\ Len(ReconAcceptedWords) < CHECK_WORDS
    /\ Len(ReconAcceptedWords) + CHECK_WORDS < Len(ReconOrigWords) - 1
    /\ fn_ret[1].tag = "Ok"
    /\ Len(fn_ret[1].value.words) > 0


\* A sequence is a suffix of another.
IsSuffix(s, t) ==
    /\ Len(s) <= Len(t)
    /\ s = SubSeq(t, Len(t) - Len(s) + 1, Len(t))

\* C19: Word conservation.  The words get_next_text_words returns are
\* exactly the words of the original text after index skipped_words, so
\* skipped_words + 1 + the number of words returned is the number of the
\* original words; and in every iteration of words_to_paragraphs on a
\* document the live stream is a suffix of the document's words.
C19_WordConservation ==
    /\ last_ntw.tag = "Ok" =>
          LET orig_part_words == split_whitespace(last_ntw.orig_text)
              res == last_ntw.res
          IN  /\ res.skipped_words + 1 + Len(res.words) = Len(orig_part_words)
              /\ res.words = SubSeq(orig_part_words, res.skipped_words + 2,
                                    Len(orig_part_words))
    /\ (caller = "run_structify_text"
          /\ pc \in {"loop", "gp_get", "gp_chat", "gp_put", "after_gp", "ntw"}) =>
          IsSuffix(all_words, doc)

\* The first iteration has ended with a call of get_next_text_words that
\* skipped more than one word and left a stream of several words.
C19_Witness ==
    /\ caller = "run_structify_text"
    /\ pc = "loop" /\ iter = 1
    /\ last_ntw.tag = "Ok"
    /\ last_ntw.res.skipped_words > 0
    /\ Len(all_words) > 1
    /\ all_words = last_ntw.res.words


\* C20: Iteration count.  A successful run on a document of more than twice
\* CHUNK_WORDS_THRESHOLD words has performed at least 3 iterations.
C20_IterationCount ==
    (Len(doc) > 2 * CHUNK_WORDS_THRESHOLD /\ pc = "done") => iter >= 3


\* A step in which the chat capability or the cache store returns an error.
ErrorStep ==
    \/ pc \in ChatSites /\ pc' = "failed"
    \/ fn_ret' # fn_ret

\* C21: Error propagation without retry.  A lookup of an absent key is a
\* miss, after which the model is asked, and not an error; an error of the
\* chat capability (at any attempt of get_paragraphs, in a summary or a
\* title call) or of the cache store (read, decode, write) ends the run in
\* that step, with nothing written to the cache or to a file and every
\* partial result dropped, and the run makes no step after it; an attempt
\* is followed by another attempt of the same call only in get_paragraphs
\* after an answer whose distance is too high.
C21_ErrorPropagation ==
    [][/\ (/\ pc \in {"gp_get", "sum_get", "title_get"} /\ ReadPending
           /\ pending_key \notin DOMAIN cache
           /\ ~ErrorStep /\ pc' # "aborted") =>
              /\ call'.miss
              /\ pc' = (IF pc = "gp_get" THEN "gp_chat"
                        ELSE IF pc = "sum_get" THEN "sum_chat" ELSE "title_chat")
       /\ ErrorStep =>
              /\ pc' = "failed"
              /\ run' = run
              /\ cache' = cache
              /\ files' = files
              /\ result_paragraphs' = <<>> /\ paragraphs' = <<>>
              /\ result_summaries' = <<>> /\ text_with_sections' = <<>>
       /\ pc = "failed" => run' = run + 1
       /\ (pc \in ChatSites /\ pc' = pc) =>
              /\ pc = "gp_chat"
              /\ retry_number' = retry_number + 1
              /\ Len(call'.answers) = Len(call.answers) + 1
              /\ distance_too_high(call'.answers[Len(call'.answers)][1])]_vars

\* A run failed on a cache write; the run after it has failed in
\* get_paragraphs, at a request made after a rejected answer.
C21_Witness ==
    /\ run = 2 /\ prev.pc = "failed"
    /\ fn_ret = <<Err("WriteError")>>
    /\ pc = "failed"
    /\ call.op = "get_paragraphs" /\ call.requests = 2


\* The places <<c, k>> of a list of lists: the k-th entry of the c-th list.
Places(ll) == UNION {{<<c, k>> : k \in 1..Len(ll[c])} : c \in 1..Len(ll)}

\* C22: Section totality.  When the assignment of the paragraphs to
\* sections has succeeded, every paragraph index 0..len-1 is in exactly one
\* place of the emitted sections' paragraph lists, no section is empty, and
\* the sections handed to the title loop are the texts of those paragraphs.
C22_SectionTotality ==
    [][(pc = "walk" /\ pc' = "title_get") =>
          LET pars == section_paragraphs(section_par_words)
          IN  /\ \A p \in 0..(Len(ct_paragraphs) - 1) :
                    Cardinality({pl \in Places(pars) : pars[pl[1]][pl[2]] = p}) = 1
              /\ \A pl \in Places(pars) :
                    pars[pl[1]][pl[2]] \in 0..(Len(ct_paragraphs) - 1)
              /\ \A c \in 1..Len(pars) : pars[c] # <<>>
              /\ final_sections' =
                    [c \in 1..Len(pars) |->
                        [k \in 1..Len(pars[c]) |-> ct_paragraphs[pars[c][k] + 1]]]]_vars

\* Two paragraphs have been assigned to two sections; no title is made yet.
C22_Witness ==
    /\ pc = "title_get" /\ text_with_sections = <<>>
    /\ Len(ct_paragraphs) = 2
    /\ Len(final_sections) = 2
    /\ final_sections = <<<<ct_paragraphs[1]>>, <<ct_paragraphs[2]>>>>


\* C23: ConsistencyError.  When the walk over the sections has ended and
\* some paragraph index owns no word of any section, the run fails in its
\* next step (unless it is killed): no title is requested, nothing is
\* cached and no file is written.
C23_ConsistencyError ==
    [][(/\ pc = "walk" /\ Len(section_par_words) = Len(sections)
        /\ \E p \in 0..(Len(ct_paragraphs) - 1) :
              \A s \in 1..Len(section_par_words) : p \notin DOMAIN section_par_words[s]
        /\ pc' # "aborted") =>
          /\ pc' = "failed"
          /\ requested' = requested
          /\ call' = call
          /\ cache' = cache
          /\ files' = files
          /\ text_with_sections' = <<>>]_vars

\* A run has failed after the walk over the sections although each of the
\* two paragraphs had a summary of some words: the sections left words
\* uncovered.
C23_Witness ==
    /\ pc = "failed" /\ ckpt.pc = "walk"
    /\ Len(ct_paragraphs) = 2
    /\ Len(ckpt.titles[1]) = 2
    /\ \A i \in 1..2 : split_whitespace(ckpt.titles[1][i]) # <<>>
    /\ "trakktor.final.md" \notin DOMAIN files


\* The number of words paragraph p owns in the (0-based) section s.
WordsInSection(spw, s, p) ==
    IF p \in DOMAIN spw[s + 1] THEN spw[s + 1][p] ELSE 0

\* C24: Section assignment rule.  Each step of the walk counts, per
\* paragraph, the tagged summary words from the head of the remaining
\* stream up to the index get_next_text_words returned for the section, and
\* removes them from the stream; and with the counts made so far, a
\* paragraph that owns a word of some section is assigned to the section
\* in which it owns the most words, the one of lowest index among several
\* such.
C24_AssignmentRule ==
    [][/\ (pc = "walk" /\ pc' = "walk") =>
             LET k == last_ntw'.res.skipped_words
                 counted == section_par_words'[Len(section_par_words')]
             IN  /\ Len(section_par_words') = Len(section_par_words) + 1
                 /\ last_ntw'.accepted = <<sections[Len(section_par_words')]>>
                 /\ last_ntw'.orig_text = current_text(summaries_words_p)
                 /\ \A p \in 0..(Len(ct_paragraphs) - 1) :
                       Cardinality({i \in 1..(k + 1) : summaries_words_p[i][1] = p})
                           = (IF p \in DOMAIN counted THEN counted[p] ELSE 0)
                 /\ DOMAIN counted \subseteq 0..(Len(ct_paragraphs) - 1)
                 /\ summaries_words_p' =
                       SubSeq(summaries_words_p, k + 2, Len(summaries_words_p))
       /\ pc = "walk" =>
             LET spw == section_par_words
                 assigned == par_in_section(spw)
             IN  /\ DOMAIN assigned =
                       {p \in 0..(Len(ct_paragraphs) - 1) :
                           \E s \in 0..(Len(spw) - 1) : WordsInSection(spw, s, p) > 0}
                 /\ \A p \in DOMAIN assigned :
                       /\ assigned[p][1] \in 0..(Len(spw) - 1)
                       /\ assigned[p][2] = WordsInSection(spw, assigned[p][1], p)
                       /\ \A s \in 0..(Len(spw) - 1) :
                             /\ WordsInSection(spw, s, p) <= assigned[p][2]
                             /\ WordsInSection(spw, s, p) = assigned[p][2] =>
                                   s >= assigned[p][1]]_vars

\* The walk has ended; the first paragraph owns as many words in the second
\* section as in the first, and is assigned to the first.
C24_Witness ==
    /\ pc = "walk" /\ Len(sections) = 2 /\ Len(section_par_words) = 2
    /\ WordsInSection(section_par_words, 0, 0) > 0
    /\ WordsInSection(section_par_words, 0, 0) = WordsInSection(section_par_words, 1, 0)
    /\ par_in_section(section_par_words)[0][1] = 0


\* A line of the final text that is a section's title line.
IsTitleLine(l) == l # <<>> /\ l[1] = "######"

\* The non-blank lines of a text.
NonBlankLines(text) == SelectSeq(lines(text), LAMBDA l : l # <<>>)

\* C25: Emission order.  Throughout the loop over the final sections, the
\* text so far is made of title lines and paragraphs; it starts with a
\* title line, no title line is followed by another or ends the text, and
\* its paragraphs followed by those of the sections still to come are the
\* paragraphs given to create_titles, in their order, each once.  For the
\* section at the head get_section_title is called, once, with that
\* section; a section leaves the list only by its title line, made of the
\* title that call returned, and its paragraphs being appended; and the
\* final file is the text after the last section.
C25_EmissionOrder ==
    [][/\ pc \in {"title_get", "title_chat", "title_put"} =>
             LET ls == NonBlankLines(text_with_sections)
             IN  /\ SelectSeq(ls, LAMBDA l : ~IsTitleLine(l))
                        \o Concat(final_sections) = ct_paragraphs
                 /\ ls # <<>> => IsTitleLine(ls[1]) /\ ~IsTitleLine(ls[Len(ls)])
                 /\ \A i \in 1..(Len(ls) - 1) :
                        ~(IsTitleLine(ls[i]) /\ IsTitleLine(ls[i + 1]))
       /\ (pc = "title_get" /\ final_sections # <<>> /\ pc' # "aborted") =>
             /\ call'.op = "get_section_title"
             /\ call'.key = get_section_title_call_hash(Head(final_sections))
             /\ call'.hit => final_sections' = Tail(final_sections)
             /\ call'.miss => pc' = "title_chat" /\ final_sections' = final_sections
       /\ (pc = "title_chat" /\ pc' = "title_put") =>
             call'.requests = 1 /\ final_sections' = final_sections
       /\ (pc \in {"title_get", "title_put"} /\ final_sections' # final_sections
              /\ pc' \in {"title_get"}) =>
             LET title == IF pc = "title_put" THEN summary
                          ELSE cache[get_section_title_call_hash(Head(final_sections))][2]
                 sec == Head(final_sections)
             IN  /\ final_sections' = Tail(final_sections)
                 /\ text_with_sections' =
                       text_with_sections \o <<"######", SP>> \o trim(title)
                           \o <<NL, NL>>
                           \o Concat([i \in 1..Len(sec) |-> sec[i] \o <<NL, NL>>])
       /\ (pc = "title_get" /\ pc' = "done") =>
             /\ final_sections = <<>>
             /\ files'["trakktor.final.md"] = text_with_sections]_vars

\* The final file of two paragraphs in two sections is written: two title
\* lines, each followed by its paragraph.
C25_Witness ==
    /\ pc = "done" /\ Len(ct_paragraphs) = 2
    /\ "trakktor.final.md" \in DOMAIN files
    /\ LET ls == NonBlankLines(files["trakktor.final.md"])
       IN  /\ Len(ls) = 4
           /\ IsTitleLine(ls[1]) /\ ls[2] = ct_paragraphs[1]
           /\ IsTitleLine(ls[3]) /\ ls[4] = ct_paragraphs[2]


\* C26: Summarization.  Throughout the loop of summarize_paragraphs the
\* summaries pushed so far are no more than the paragraphs, and the i-th is
\* the summary cached under the key of the i-th paragraph; the model is
\* asked only for a paragraph unlike every paragraph before it in the list.
\* The lookup of a paragraph's key pushes the cached summary without a
\* request on a hit and leads to a request on a miss; the answer to that
\* one request, whatever it is, is cached and pushed (or the run ends);
\* and the loop returns when there are as many summaries as paragraphs.
C26_Summarization ==
    [][/\ pc \in {"sum_get", "sum_chat", "sum_put"} =>
             /\ Len(result_summaries) <= Len(ct_paragraphs)
             /\ \A i \in 1..Len(result_summaries) :
                   /\ summarize_paragraphs_call_hash(ct_paragraphs[i]) \in DOMAIN cache
                   /\ cache[summarize_paragraphs_call_hash(ct_paragraphs[i])]
                         = to_vec_string(result_summaries[i])
             /\ pc \in {"sum_chat", "sum_put"} =>
                   \A i \in 1..Len(result_summaries) :
                       ct_paragraphs[i] # ct_paragraphs[Len(result_summaries) + 1]
       /\ (pc = "sum_get" /\ Len(result_summaries) < Len(ct_paragraphs)
              /\ pc' # "aborted") =>
             LET key == summarize_paragraphs_call_hash(
                            ct_paragraphs[Len(result_summaries) + 1])
             IN  /\ requested' = requested
                 /\ cache' = cache
                 /\ IF key \in DOMAIN cache
                    THEN /\ pc' = "sum_get"
                         /\ result_summaries' =
                               Append(result_summaries, cache[key][2])
                    ELSE /\ pc' = "sum_chat"
                         /\ result_summaries' = result_summaries
       /\ (pc = "sum_chat" /\ pc' # "aborted") =>
             /\ pc' \in {"sum_put", "failed"}
             /\ call'.requests = 1
             /\ cache' = cache
       /\ (pc = "sum_put" /\ pc' # "aborted") =>
             /\ pc' = "sum_get"
             /\ result_summaries' = Append(result_summaries, summary)
             /\ cache' = [k \in DOMAIN cache \cup
                              {summarize_paragraphs_call_hash(
                                   ct_paragraphs[Len(result_summaries) + 1])} |->
                            IF k \in DOMAIN cache THEN cache[k]
                            ELSE to_vec_string(summary)]
       /\ (pc = "sum_get" /\ pc' \notin {"sum_get", "sum_chat", "aborted"}) =>
             /\ Len(result_summaries) = Len(ct_paragraphs)
             /\ result_summaries' = result_summaries]_vars

\* The first run has summarized two equal paragraphs: a request was made
\* for the first, the summary of the second came from the cache.
C26_Witness ==
    /\ run = 1 /\ pc = "sum_get" /\ requested
    /\ Len(ct_paragraphs) = 2 /\ ct_paragraphs[1] = ct_paragraphs[2]
    /\ Len(result_summaries) = 2
    /\ call.op = "summarize_paragraphs" /\ call.hit


\* The keys a step binds or rebinds in the cache: the writes of the step.
CacheWrites ==
    {k \in DOMAIN cache' : k \notin DOMAIN cache \/ cache'[k] # cache[k]}

\* A step in which the model answers a request (or fails to).
RequestStep == call'.requests > call.requests

Fatal == {"failed", "panicked", "aborted"}

\* The files a step writes: created, or their content changed.
Written == {f \in DOMAIN files' : f \notin DOMAIN files \/ files'[f] # files[f]}

\* The first n of the output files, in the order of their stages.
FirstFiles(n) == {StageFiles[i] : i \in 1..n}

\* The lines of the final text that are not title lines: its paragraphs.
ParagraphLines(text) ==
    SelectSeq(NonBlankLines(text), LAMBDA l : ~IsTitleLine(l))

\* C28: Stage ordering.  In a whole run, from the opening of the cache on:
\* no model request is made and no file exists before the cache is opened,
\* and after a failed open the run has failed with no request made, no file
\* and no cache entry; the files that exist are always the first few in the
\* order text, summaries, sections, final; a step writes at most one file:
\* the text file only where words_to_paragraphs returns from the last chunk
\* to run_structify_text, the summaries file only when every paragraph has
\* its summary and the text file exists, the sections file after that, the
\* final file only when every section has its title, every paragraph is in
\* the text and the three other files exist, each with the content of its
\* stage when the write succeeds; a step that ends the run in a fatal error
\* keeps every file there was with its content and creates at most the file
\* of the failing write, empty; and a run that ended so has no final text,
\* nor any file but an empty text file if it failed before create_titles.
C28_StageOrdering ==
    /\ [](/\ \E n \in 0..Len(StageFiles) : DOMAIN files = FirstFiles(n)
          /\ pc = "open" => (~requested /\ files = <<>>)
          /\ Err("OpenError") \in {fn_ret[i] : i \in 1..Len(fn_ret)} =>
                (pc = "failed" /\ ~requested /\ files = <<>> /\ cache = <<>>)
          /\ pc \in Fatal =>
                /\ "trakktor.final.md" \in DOMAIN files =>
                      files["trakktor.final.md"] = <<>>
                /\ caller = "run_structify_text" =>
                      \A f \in DOMAIN files :
                         f = RESULT_FILE_EXT /\ files[f] = <<>>)
    /\ [][/\ Cardinality(Written) <= 1
          /\ RESULT_FILE_EXT \in Written =>
                /\ pc = "after_gp" /\ last_chunk /\ llm_text = orig_text
                /\ caller = "run_structify_text"
                /\ pc' \notin Fatal =>
                      /\ pc' = "done"
                      /\ files'[RESULT_FILE_EXT] =
                            JoinWith(result_paragraphs', <<NL, NL>>)
          /\ PARAGRAPHS_SUMMARY_FILE_EXT \in Written =>
                /\ pc = "sum_get"
                /\ Len(result_summaries) = Len(ct_paragraphs)
                /\ DOMAIN files = FirstFiles(1)
                /\ pc' \notin Fatal =>
                      files'[PARAGRAPHS_SUMMARY_FILE_EXT] =
                         JoinWith(result_summaries, <<NL, NL>>)
          /\ "trakktor.sections.md" \in Written =>
                /\ pc = "sections"
                /\ DOMAIN files = FirstFiles(2)
          /\ "trakktor.final.md" \in Written =>
                /\ pc = "title_get" /\ final_sections = <<>>
                /\ DOMAIN files = FirstFiles(3)
                /\ Len(ParagraphLines(text_with_sections)) = Len(ct_paragraphs)
                /\ pc' \notin Fatal =>
                      /\ pc' = "done"
                      /\ files'["trakktor.final.md"] = text_with_sections
          /\ (pc' \in Fatal /\ pc \notin Fatal) =>
                /\ \A f \in DOMAIN files :
                      f \in DOMAIN files' /\ files'[f] = files[f]
                /\ \A f \in Written : f = pending_file /\ files'[f] = <<>>
          /\ pc \in Fatal => (pc' \in Fatal /\ files' = files)]_vars

\* A title request has failed: the run has ended with the text, summaries
\* and sections files written and no final file.
C28_Witness ==
    /\ pc = "failed" /\ caller = "create_titles"
    /\ call.op = "get_section_title" /\ call.requests = 1
    /\ DOMAIN files = FirstFiles(3)
    /\ files[RESULT_FILE_EXT] = JoinWith(ct_paragraphs, <<NL, NL>>)
    /\ Len(ct_paragraphs) = 2
    /\ files[PARAGRAPHS_SUMMARY_FILE_EXT] # <<>>


\* The first n - 1 of n paragraphs.
AllButLast(ps) == [i \in 1..(Len(ps) - 1) |-> ps[i]]

RECURSIVE Replay(_)
\* The result read off the cache of a run that succeeded on the stream
\* words: the paragraphs stored for the stream's chunk, all of them if the
\* chunk is the whole stream, else all but the last, followed by the result
\* for the stream stored for those and the stream's text.
Replay(words) ==
    LET texts == BuildTexts(0, words, <<>>, <<>>)
        ps == from_slice_strings(cache[get_paragraphs_call_hash(texts[1])]).value
        next == from_slice_next(
                    cache[get_next_text_words_call_hash(AllButLast(ps), texts[2])])
    IN  IF texts[1] = texts[2] THEN ps
        ELSE AllButLast(ps) \o Replay(next.value.words)

\* C29: Provisional paragraph.  After a segmentation call on a chunk that
\* is not the last has returned n >= 2 paragraphs, the driver's step
\* appends the first n - 1 of them, in order, to the result and nothing
\* else, keeps the stream, and calls get_next_text_words; that call is made
\* with exactly those n - 1 paragraphs and the full remainder text, and the
\* stream becomes the words it computes from them, the n-th paragraph having
\* no part in it; and the result of a successful run is the accepted
\* paragraphs of each chunk but the last, in the order of the chunks,
\* followed by all the paragraphs of the last chunk.
C29_ProvisionalParagraph ==
    /\ [][/\ (pc = "after_gp" /\ ~last_chunk /\ Len(paragraphs) >= 2
                 /\ pc' # "aborted") =>
                /\ pc' = "ntw"
                /\ result_paragraphs' = result_paragraphs \o AllButLast(paragraphs)
                /\ Len(result_paragraphs') =
                      Len(result_paragraphs) + Len(paragraphs) - 1
                /\ paragraphs' = paragraphs
                /\ all_words' = all_words
          /\ (pc = "ntw" /\ pc' = "loop") =>
                /\ last_ntw'.accepted = AllButLast(paragraphs)
                /\ last_ntw'.orig_text = orig_text
                /\ all_words' =
                      compute_next_text_words(AllButLast(paragraphs),
                                              orig_text).value.words
                /\ result_paragraphs' = result_paragraphs]_vars
    /\ [](pc = "done" => result_paragraphs = Replay(doc))

\* A first run over three chunks is done: two chunks were not the last,
\* each gave at least one accepted paragraph, and the last chunk's
\* paragraphs end the result.
C29_Witness ==
    /\ pc = "done" /\ run = 1 /\ iter = 3
    /\ Len(result_paragraphs) >= 3
    /\ Len(ckpt.result_paragraphs) >= 2
    /\ Len(ckpt.result_paragraphs) < Len(result_paragraphs)


\* The lines of the parsed response, trimmed.
TrimmedLines == LET ls == lines(fn_args[1]) IN [i \in 1..Len(ls) |-> trim(ls[i])]

\* The maximal runs of consecutive non-blank lines, as (first, last).
LineRuns ==
    LET t == TrimmedLines
    IN  {r \in (1..Len(t)) \X (1..Len(t)) :
            /\ r[1] <= r[2]
            /\ \A k \in r[1]..r[2] : t[k] # <<>>
            /\ r[1] = 1 \/ t[r[1] - 1] = <<>>
            /\ r[2] = Len(t) \/ t[r[2] + 1] = <<>>}

\* C30: Paragraph parsing.  The paragraphs parsed from a response are as
\* many as the maximal runs of consecutive lines that are not blank after
\* trimming, and the k-th paragraph is the trimmed lines of the k-th run, in
\* order, joined by single spaces; so lines that are empty or hold only
\* whitespace part the paragraphs and give none, however many follow each
\* other; no paragraph is empty, none holds a line feed, none begins or ends
\* with whitespace.
C30_ParagraphParsing ==
    pc = "parsed" =>
        LET ps == fn_ret[1]
            t == TrimmedLines
        IN  /\ Len(ps) = Cardinality(LineRuns)
            /\ \A r \in LineRuns :
                  LET k == Cardinality({q \in LineRuns : q[1] <= r[1]})
                  IN  ps[k] = JoinWith(SubSeq(t, r[1], r[2]), <<SP>>)
            /\ \A k \in 1..Len(ps) :
                  /\ ps[k] # <<>>
                  /\ \A i \in 1..Len(ps[k]) : ps[k][i] # NL
                  /\ ~IsWhitespace(ps[k][1])
                  /\ ~IsWhitespace(ps[k][Len(ps[k])])

\* A response of four lines was parsed: two lines of text parted by a
\* whitespace-only line and an empty one give two paragraphs.
C30_Witness ==
    /\ pc = "parsed"
    /\ Len(TrimmedLines) = 4
    /\ TrimmedLines[2] = <<>> /\ TrimmedLines[3] = <<>>
    /\ lines(fn_args[1])[2] # lines(fn_args[1])[3]
    /\ Len(fn_ret[1]) = 2


\* The cache key of the segmentation call on the chunk of a word stream.
ChunkKey(words) ==
    get_paragraphs_call_hash(BuildTexts(0, words, <<>>, <<>>)[1])

\* The run before this one failed on too few paragraphs: it failed inside
\* the loop, with the segmentation result of its last chunk in the cache.
PrevInsufficient ==
    /\ prev.pc = "failed"
    /\ prev.ckpt.n >= 1
    /\ ChunkKey(prev.ckpt.all_words) \in prev.keys

\* C31: Sticky failure through the cache.  In a run that follows one that
\* failed on too few paragraphs at some chunk: the cache holds the
\* segmentation result of that chunk, fewer than two paragraphs; the run
\* makes no model request, never gets beyond that chunk, reaches it with
\* the result and stream the earlier run had there, and can end there only,
\* failed on the same too few paragraphs (or killed).  And in any later
\* run, a segmentation call whose key the cache held, the result of a
\* fallback included, returns the stored paragraphs with no request made.
C31_StickyFailure ==
    /\ (run > 1 /\ PrevInsufficient) =>
          LET key == ChunkKey(prev.ckpt.all_words)
          IN  /\ key \in DOMAIN cache
              /\ Len(from_slice_strings(cache[key]).value) < 2
              /\ ~requested
              /\ ckpt.n <= prev.ckpt.n
              /\ pc \notin {"done", "panicked", "gp_chat", "gp_put"}
              /\ pc = "failed" => (ckpt = prev.ckpt /\ call = NoCall)
              /\ (pc = "after_gp" /\ ckpt.n = prev.ckpt.n) =>
                    /\ ckpt = prev.ckpt
                    /\ ~last_chunk
                    /\ Len(paragraphs) < 2
    /\ (run > 1 /\ pc = "after_gp" /\ call.key \in prev.keys) =>
          /\ call.hit /\ call.requests = 0
          /\ paragraphs = from_slice_strings(cache[call.key]).value

\* The second run has failed at the second chunk, where the first run had
\* failed: the stored result of that chunk is a fallback result, further
\* than MAX_DISTANCE from the chunk, of a single paragraph.
C31_Witness ==
    /\ run > 1 /\ PrevInsufficient /\ pc = "failed" /\ iter = 2
    /\ ~requested
    /\ LET chunk == BuildTexts(0, ckpt.all_words, <<>>, <<>>)[1]
           stored == from_slice_strings(cache[ChunkKey(ckpt.all_words)]).value
       IN  /\ Len(stored) = 1
           /\ edit_distance(JoinWith(stored, <<SP>>), chunk) > MAX_DISTANCE


\* C32: Non-empty chunks.  Whenever the driver is in the segmentation call
\* (at its lookup, at a request or at the store), the chunk it passed holds
\* at least one word, in the first iteration and in every later one.
C32_NonEmptyChunks ==
    pc \in {"gp_get", "gp_chat", "gp_put"} => split_whitespace(llm_text) # <<>>


\* C33: Section walk stays in bounds.  Whenever the walk is about to call
\* get_next_text_words for a section, the tagged summary words not yet
\* covered are not empty; and no step of the walk panics, on an empty scan
\* or on a slice beyond the end of those words.
C33_WalkInBounds ==
    [][pc = "walk" =>
          /\ Len(section_par_words) < Len(sections) => summaries_words_p # <<>>
          /\ pc' # "panicked"]_vars


\* The walk is over and the sections are about to be assembled.
WalkDone == pc = "walk" /\ Len(section_par_words) = Len(sections)

\* C34: Monotone section assignment.  When the walk is over, the section
\* assigned to a paragraph does not decrease with the paragraph's index; the
\* groups to be emitted are as many as the distinct assigned sections, the
\* paragraphs of a group all have the group's section and follow each other
\* in the order of the assigned paragraphs (by steps of one when every
\* paragraph is assigned), and two groups never have the same section.
C34_MonotoneAssignment ==
    WalkDone =>
        LET assigned == par_in_section(section_par_words)
            groups == section_paragraphs(section_par_words)
            sec(g) == assigned[groups[g][1]][1]
        IN  /\ \A p, q \in DOMAIN assigned :
                  p <= q => assigned[p][1] <= assigned[q][1]
            /\ Len(groups) = Cardinality({assigned[p][1] : p \in DOMAIN assigned})
            /\ \A g \in 1..Len(groups) :
                  /\ groups[g] # <<>>
                  /\ \A k \in 1..Len(groups[g]) : assigned[groups[g][k]][1] = sec(g)
                  /\ \A k \in 1..(Len(groups[g]) - 1) :
                        /\ groups[g][k] < groups[g][k + 1]
                        /\ ~\E p \in DOMAIN assigned :
                              groups[g][k] < p /\ p < groups[g][k + 1]
                        /\ ~not_all_paragraphs_used(section_par_words, ct_paragraphs)
                              => groups[g][k + 1] = groups[g][k] + 1
            /\ \A g, h \in 1..Len(groups) : g < h => sec(g) < sec(h)

\* The walk over two sections is over: the first paragraph has words in
\* both and is assigned to the first, the second to the second.
C34_Witness ==
    /\ WalkDone /\ Len(sections) = 2 /\ Len(ct_paragraphs) = 2
    /\ DOMAIN section_par_words[2] = {0, 1}
    /\ par_in_section(section_par_words)[0][1] = 0
    /\ par_in_section(section_par_words)[1][1] = 1
    /\ Len(section_paragraphs(section_par_words)) = 2


\* C35: Non-empty result.  When words_to_paragraphs has returned
\* successfully to run_structify_text (the document had at least one word,
\* or the run would have failed at the start), the result holds at least
\* one paragraph.
C35_NonEmptyResult ==
    (pc = "done" /\ doc # <<>>) => Len(result_paragraphs) >= 1


(***************************************************************************)
(* The infrastructure stacks                                               *)
(* (src/trakktor/src/aws_batch/cloudformation.rs).  CfnSpec has the runs   *)
(* of manage_cloudformation_stacks against an account: the account's       *)
(* stacks are loaded once, every requested stack is created, updated, left *)
(* alone or refused, and a started operation is awaited by polling the     *)
(* stack's status, while the service carries the operation on.  The state  *)
(* of the account and of the run is the record fn_ret; fn_args holds the   *)
(* requested stacks.  A status is the sequence of its words and            *)
(* underscores; a stack's tags are a set of (key, value) pairs.            *)
(***************************************************************************)
TRAKKTOR_UID_TAG == "trakktor:uid"

TRAKKTOR_VERSION_TAG == "trakktor:version"

TRAKKTOR_STACK_TAG == "trakktor:stack"

CARGO_PKG_VERSION == "pkg-version"

\* enum StackId, in the order manage_cloudformation_stacks handles them.
StackId == <<"Base", "GpuBatch">>

get_stack_name(stack_id) ==
    IF stack_id = "Base" THEN "base-stack" ELSE "gpu-batch-stack"

\* The template generated for a stack; it is the same in every run.
gen_cloudformation_template(stack_id) == <<"template", stack_id>>

\* The text of a status: its words with an underscore between each two.
StatusStr(ws) == JoinWith([i \in 1..Len(ws) |-> <<ws[i]>>], <<"_">>)

CREATE_IN_PROGRESS == StatusStr(<<"CREATE", "IN", "PROGRESS">>)

CREATE_COMPLETE == StatusStr(<<"CREATE", "COMPLETE">>)

CREATE_FAILED == StatusStr(<<"CREATE", "FAILED">>)

ROLLBACK_IN_PROGRESS == StatusStr(<<"ROLLBACK", "IN", "PROGRESS">>)

ROLLBACK_COMPLETE == StatusStr(<<"ROLLBACK", "COMPLETE">>)

ROLLBACK_FAILED == StatusStr(<<"ROLLBACK", "FAILED">>)

UPDATE_IN_PROGRESS == StatusStr(<<"UPDATE", "IN", "PROGRESS">>)

UPDATE_COMPLETE_CLEANUP_IN_PROGRESS ==
    StatusStr(<<"UPDATE", "COMPLETE", "CLEANUP", "IN", "PROGRESS">>)

UPDATE_COMPLETE == StatusStr(<<"UPDATE", "COMPLETE">>)

UPDATE_FAILED == StatusStr(<<"UPDATE", "FAILED">>)

UPDATE_ROLLBACK_IN_PROGRESS ==
    StatusStr(<<"UPDATE", "ROLLBACK", "IN", "PROGRESS">>)

UPDATE_ROLLBACK_COMPLETE_CLEANUP_IN_PROGRESS ==
    StatusStr(<<"UPDATE", "ROLLBACK", "COMPLETE", "CLEANUP", "IN", "PROGRESS">>)

UPDATE_ROLLBACK_COMPLETE == StatusStr(<<"UPDATE", "ROLLBACK", "COMPLETE">>)

UPDATE_ROLLBACK_FAILED == StatusStr(<<"UPDATE", "ROLLBACK", "FAILED">>)

\* The statuses the service moves a stack to from status s, on its own.
NextStatuses(s) ==
    IF s = CREATE_IN_PROGRESS
        THEN {CREATE_COMPLETE, CREATE_FAILED, ROLLBACK_IN_PROGRESS}
    ELSE IF s = ROLLBACK_IN_PROGRESS
        THEN {ROLLBACK_COMPLETE, ROLLBACK_FAILED}
    ELSE IF s = UPDATE_IN_PROGRESS
        THEN {UPDATE_COMPLETE_CLEANUP_IN_PROGRESS, UPDATE_FAILED,
              UPDATE_ROLLBACK_IN_PROGRESS}
    ELSE IF s = UPDATE_COMPLETE_CLEANUP_IN_PROGRESS
        THEN {UPDATE_COMPLETE}
    ELSE IF s = UPDATE_ROLLBACK_IN_PROGRESS
        THEN {UPDATE_ROLLBACK_COMPLETE_CLEANUP_IN_PROGRESS,
              UPDATE_ROLLBACK_FAILED}
    ELSE IF s = UPDATE_ROLLBACK_COMPLETE_CLEANUP_IN_PROGRESS
        THEN {UPDATE_ROLLBACK_COMPLETE}
    ELSE {}

\* str::ends_with.
ends_with(s, suffix) ==
    /\ Len(suffix) <= Len(s)
    /\ SubSeq(s, Len(s) - Len(suffix) + 1, Len(s)) = suffix

\* The tags a stack operation of this program sets.
stack_operation_tags(uid, stack) ==
    {<<TRAKKTOR_UID_TAG, uid>>, <<TRAKKTOR_STACK_TAG, stack>>,
     <<TRAKKTOR_VERSION_TAG, CARGO_PKG_VERSION>>}

HasTag(tags, key) == \E t \in tags : t[1] = key

TagValue(tags, key) == (CHOOSE t \in tags : t[1] = key)[2]

\* StackId::from_str succeeds.
IsStackId(value) == \E i \in 1..Len(StackId) : StackId[i] = value

\* StackInfo::load_all: the stacks of the account that carry the three
\* tags of this program, by name.
load_all(aws) ==
    LET kept == {n \in DOMAIN aws :
                    /\ HasTag(aws[n].tags, TRAKKTOR_STACK_TAG)
                    /\ IsStackId(TagValue(aws[n].tags, TRAKKTOR_STACK_TAG))
                    /\ HasTag(aws[n].tags, TRAKKTOR_UID_TAG)
                    /\ HasTag(aws[n].tags, TRAKKTOR_VERSION_TAG)}
    IN  [n \in kept |->
            [stack_id |-> TagValue(aws[n].tags, TRAKKTOR_STACK_TAG),
             status |-> aws[n].status,
             uid |-> TagValue(aws[n].tags, TRAKKTOR_UID_TAG),
             version |-> TagValue(aws[n].tags, TRAKKTOR_VERSION_TAG)]]

\* manage_stack that updates every stack it finds in a settled status.
stack_decision_always_update(all_stacks, stack_name, ver) ==
    IF stack_name \in DOMAIN all_stacks
    THEN IF /\ all_stacks[stack_name].status # CREATE_COMPLETE
            /\ all_stacks[stack_name].status # UPDATE_COMPLETE
         THEN "bail"
         ELSE "update"
    ELSE "create"

\* manage_stack: what is done about the stack of this name.
stack_decision(all_stacks, stack_name, ver) ==
    IF stack_name \in DOMAIN all_stacks
    THEN IF /\ all_stacks[stack_name].status # CREATE_COMPLETE
            /\ all_stacks[stack_name].status # UPDATE_COMPLETE
         THEN "bail"
         ELSE IF all_stacks[stack_name].uid = ver THEN "none" ELSE "update"
    ELSE "create"

\* await_stack_operation_completion that gives up only on *_FAILED.
status_verdict_failed_only(status) ==
    IF status = CREATE_COMPLETE \/ status = UPDATE_COMPLETE THEN "break"
    ELSE IF ends_with(status, <<"_", "FAILED">>) THEN "bail"
    ELSE "sleep"

\* await_stack_operation_completion: what one observed status leads to.
status_verdict(status) ==
    IF status = CREATE_COMPLETE \/ status = UPDATE_COMPLETE THEN "break"
    ELSE IF \/ ends_with(status, <<"_", "FAILED">>)
            \/ ends_with(status, <<"ROLLBACK", "_", "COMPLETE">>)
         THEN "bail"
    ELSE "sleep"

\* The statuses and tags the account's stacks start in.
InitStatuses ==
    {CREATE_COMPLETE, UPDATE_COMPLETE, CREATE_IN_PROGRESS, ROLLBACK_COMPLETE,
     UPDATE_ROLLBACK_COMPLETE}

OldUid(stack_id) ==
    get_hash_value(gen_cloudformation_template(stack_id) \o <<"old">>)

InitStacks(stack_id) ==
    {[status |-> s, tags |-> t, old |-> t] :
        s \in InitStatuses,
        t \in {stack_operation_tags(
                    get_hash_value(gen_cloudformation_template(stack_id)),
                    stack_id),
               stack_operation_tags(OldUid(stack_id), stack_id),
               {}}}

IdOfName(n) == CHOOSE i \in {"Base", "GpuBatch"} : get_stack_name(i) = n

Accounts(ids) ==
    UNION {{f \in [{get_stack_name(i) : i \in S} ->
                        UNION {InitStacks(i) : i \in ids}] :
                \A n \in DOMAIN f : f[n] \in InitStacks(IdOfName(n))} :
           S \in SUBSET ids}

CfnInit ==
    /\ Idle
    /\ cache = <<>>
    /\ pc = "load_all"
    /\ fn_args \in {<<ids>> : ids \in (SUBSET {"Base", "GpuBatch"}) \ {{}}}
    /\ fn_ret \in {[aws |-> a, loaded |-> <<>>, all_stacks |-> <<>>,
                    todo |-> <<>>, observed |-> <<>>, log |-> <<>>,
                    round |-> 1] : a \in Accounts(fn_args[1])}

\* manage_cloudformation_stacks up to its first manage_stack: the stacks
\* are loaded and the requested ones are lined up, Base first.
cfn_load_all ==
    /\ pc = "load_all"
    /\ \/ /\ fn_ret' = [fn_ret EXCEPT
                !.loaded = fn_ret.aws,
                !.all_stacks = load_all(fn_ret.aws),
                !.todo = SelectSeq(StackId, LAMBDA i : i \in fn_args[1])]
          /\ pc' = "manage"
       \/ /\ fn_ret' = [fn_ret EXCEPT !.todo = <<>>]
          /\ pc' = "failed"
    /\ UNCHANGED <<idle_frame, cache, fn_args>>

\* The run goes on with the next requested stack, or ends.
Managed(s) ==
    /\ fn_ret' = [s EXCEPT !.todo = Tail(s.todo)]
    /\ pc' = IF Tail(s.todo) = <<>> THEN "ok" ELSE "manage"

\* manage_stack up to the end of its request's send().
manage_stack ==
    /\ pc = "manage"
    /\ LET stack_id   == Head(fn_ret.todo)
           stack_name == get_stack_name(stack_id)
           ver == get_hash_value(gen_cloudformation_template(stack_id))
           d   == stack_decision(fn_ret.all_stacks, stack_name, ver)
           Sent(op, ok) ==
               [fn_ret EXCEPT !.log = Append(@, [round |-> fn_ret.round,
                   name |-> stack_name, op |-> op, accepted |-> ok])]
           tags == stack_operation_tags(ver, stack_id)
       IN  \/ /\ d = "bail"
              /\ fn_ret' = fn_ret
              /\ pc' = "failed"
           \/ /\ d = "none"
              /\ Managed(fn_ret)
           \/ /\ d = "create"
              /\ stack_name \notin DOMAIN fn_ret.aws
              /\ fn_ret' = [Sent("create", TRUE) EXCEPT
                    !.aws = [n \in DOMAIN @ \cup {stack_name} |->
                        IF n = stack_name
                        THEN [status |-> CREATE_IN_PROGRESS, tags |-> tags,
                              old |-> tags]
                        ELSE @[n]],
                    !.observed = <<>>]
              /\ pc' = "poll"
           \/ /\ d = "update"
              /\ stack_name \in DOMAIN fn_ret.aws
              /\ fn_ret.aws[stack_name].status \in
                    {CREATE_COMPLETE, UPDATE_COMPLETE, UPDATE_ROLLBACK_COMPLETE}
              /\ fn_ret' = [Sent("update", TRUE) EXCEPT
                    !.aws[stack_name] =
                        [status |-> UPDATE_IN_PROGRESS, tags |-> tags,
                         old |-> @.tags],
                    !.observed = <<>>]
              /\ pc' = "poll"
           \/ /\ d \in {"create", "update"}
              /\ fn_ret' = Sent(d, FALSE)
              /\ pc' = "failed"
    /\ UNCHANGED <<idle_frame, cache, fn_args>>

\* The availability zones, counted for the first template of a run, cannot
\* be counted: the run ends.
get_availability_zone_count_error ==
    /\ pc = "manage"
    /\ fn_ret.todo = SelectSeq(StackId, LAMBDA i : i \in fn_args[1])
    /\ pc' = "failed"
    /\ UNCHANGED <<idle_frame, cache, fn_args, fn_ret>>

\* One turn of await_stack_operation_completion's loop; observed is the
\* status it has just read.
await_stack_operation_completion ==
    /\ pc = "poll"
    /\ LET stack_name == get_stack_name(Head(fn_ret.todo))
           status == fn_ret.aws[stack_name].status
           seen == [fn_ret EXCEPT !.observed = status]
       IN  \/ /\ status_verdict(status) = "break"
              /\ Managed(seen)
           \/ /\ status_verdict(status) = "bail"
              /\ fn_ret' = seen
              /\ pc' = "failed"
           \/ /\ status_verdict(status) = "sleep"
              /\ fn_ret' = seen
              /\ pc' = "poll"
    /\ UNCHANGED <<idle_frame, cache, fn_args>>

\* describe_stacks fails during the wait, or reports no such stack.
describe_stacks_error ==
    /\ pc = "poll"
    /\ pc' = "failed"
    /\ UNCHANGED <<idle_frame, cache, fn_args, fn_ret>>

\* The service carries a stack's operation on; a rollback of an update
\* restores the tags the stack had.
stack_progress ==
    /\ \E n \in DOMAIN fn_ret.aws :
          \E s \in NextStatuses(fn_ret.aws[n].status) :
             fn_ret' = [fn_ret EXCEPT !.aws[n] =
                 [status |-> s,
                  tags |-> IF s = UPDATE_ROLLBACK_IN_PROGRESS
                           THEN @.old ELSE @.tags,
                  old |-> @.old]]
    /\ UNCHANGED <<idle_frame, cache, fn_args, pc>>

\* The program is run again, with the templates unchanged.
manage_again ==
    /\ pc \in {"ok", "failed"}
    /\ fn_ret.round < MaxRuns
    /\ fn_ret' = [fn_ret EXCEPT !.round = @ + 1, !.todo = <<>>,
                                !.observed = <<>>]
    /\ pc' = "load_all"
    /\ UNCHANGED <<idle_frame, cache, fn_args>>

CfnNext ==
    \/ cfn_load_all
    \/ manage_stack
    \/ get_availability_zone_count_error
    \/ await_stack_operation_completion
    \/ describe_stacks_error
    \/ stack_progress
    \/ manage_again

CfnSpec == CfnInit /\ [][CfnNext]_vars


\* The stack of this name was among the account's stacks when they were
\* loaded, carrying the three tags of this program.
Reported(name) ==
    /\ name \in DOMAIN fn_ret.loaded
    /\ {TRAKKTOR_UID_TAG, TRAKKTOR_STACK_TAG, TRAKKTOR_VERSION_TAG}
            \subseteq {t[1] : t \in fn_ret.loaded[name].tags}

\* This step sends one request of this kind for this stack.
Issues(op, name) ==
    /\ Len(fn_ret'.log) = Len(fn_ret.log) + 1
    /\ fn_ret'.log[Len(fn_ret'.log)].op = op
    /\ fn_ret'.log[Len(fn_ret'.log)].name = name

Settled(status) == status \in {CREATE_COMPLETE, UPDATE_COMPLETE}

\* The requests sent so far for this stack, and those the service accepted.
Requests(name) == {i \in 1..Len(fn_ret.log) : fn_ret.log[i].name = name}

AcceptedRequests(name) == {i \in Requests(name) : fn_ret.log[i].accepted}

\* C36 (as amended): manage_stack sends a create when the loaded stacks
\* have no stack of that name carrying the program's tags, sends an update
\* when they have one in status CreateComplete or UpdateComplete whose uid
\* tag differs from the hash of the template, sends nothing when the uid
\* tag equals the hash, and fails sending nothing when the stack is in any
\* other status; over all the runs with an unchanged template at most one
\* create or update of a stack is accepted by the service.
C36_StackDecision ==
    /\ [](pc \in {"load_all", "manage", "poll", "ok", "failed"} =>
            \A id \in fn_args[1] :
                Cardinality(AcceptedRequests(get_stack_name(id))) <= 1)
    /\ [][manage_stack =>
            LET name == get_stack_name(Head(fn_ret.todo))
                ver  == get_hash_value(
                            gen_cloudformation_template(Head(fn_ret.todo)))
                st   == fn_ret.loaded[name]
            IN  IF ~Reported(name) THEN Issues("create", name)
                ELSE IF ~Settled(st.status)
                    THEN fn_ret'.log = fn_ret.log /\ pc' = "failed"
                ELSE IF TagValue(st.tags, TRAKKTOR_UID_TAG) = ver
                    THEN fn_ret'.log = fn_ret.log /\ pc' # "failed"
                ELSE Issues("update", name)]_vars

\* A second run has left alone the stack the first run updated.
C36_Witness ==
    /\ pc = "ok"
    /\ fn_ret.round = 2
    /\ Len(fn_ret.log) = 1
    /\ fn_ret.log[1].op = "update"
    /\ fn_ret.log[1].accepted
    /\ fn_ret.log[1].round = 1

\* C36 (as stated): the decision goes by whether a stack of that name
\* exists in the account, and two runs send at most one create or update.
C36_AsStated ==
    /\ [](pc \in {"load_all", "manage", "poll", "ok", "failed"} =>
            \A id \in fn_args[1] :
                Cardinality({i \in Requests(get_stack_name(id)) :
                                fn_ret.log[i].round <= 2}) <= 1)
    /\ [][manage_stack =>
            LET name == get_stack_name(Head(fn_ret.todo))
                ver  == get_hash_value(
                            gen_cloudformation_template(Head(fn_ret.todo)))
                st   == fn_ret.loaded[name]
            IN  IF name \notin DOMAIN fn_ret.loaded
                    THEN Issues("create", name)
                ELSE IF ~Settled(st.status)
                    THEN fn_ret'.log = fn_ret.log /\ pc' = "failed"
                ELSE IF /\ HasTag(st.tags, TRAKKTOR_UID_TAG)
                        /\ TagValue(st.tags, TRAKKTOR_UID_TAG) = ver
                    THEN fn_ret'.log = fn_ret.log /\ pc' # "failed"
                ELSE Issues("update", name)]_vars


\* CfnSpec with the wait's loop kept turning.
FairCfnSpec == CfnSpec /\ WF_vars(await_stack_operation_completion)

\* The status of the stack whose operation is awaited.
AwaitedStatus == fn_ret.aws[get_stack_name(Head(fn_ret.todo))].status

SuccessStatuses == {CREATE_COMPLETE, UPDATE_COMPLETE}

FailureStatuses ==
    {CREATE_FAILED, ROLLBACK_FAILED, ROLLBACK_COMPLETE, UPDATE_FAILED,
     UPDATE_ROLLBACK_FAILED, UPDATE_ROLLBACK_COMPLETE}

\* C37: await_stack_operation_completion returns success only on observing
\* CREATE_COMPLETE or UPDATE_COMPLETE, returns failure at the first observed
\* status ending in _FAILED or ROLLBACK_COMPLETE, and on any other status
\* polls again, however often it has polled; once the stack is in one of
\* those statuses the wait ends.
C37_StackWait ==
    /\ [][await_stack_operation_completion =>
            /\ fn_ret'.observed = AwaitedStatus
            /\ pc' \in {"ok", "manage"} <=> AwaitedStatus \in SuccessStatuses
            /\ pc' = "failed" <=> AwaitedStatus \in FailureStatuses
            /\ pc' = "poll" <=>
                    AwaitedStatus \notin SuccessStatuses \cup FailureStatuses
            /\ pc' = "poll" => fn_ret'.todo = fn_ret.todo]_vars
    /\ [][pc = "poll" /\ pc' \in {"ok", "manage"} =>
            fn_ret'.observed \in SuccessStatuses]_vars
    /\ (pc = "poll" /\ AwaitedStatus \in SuccessStatuses \cup FailureStatuses)
            ~> (pc # "poll")

\* The wait went on through the rollback of an update and failed at its end.
C37_Witness ==
    /\ pc = "failed"
    /\ fn_ret.observed = UPDATE_ROLLBACK_COMPLETE
    /\ fn_ret.log # <<>>
    /\ fn_ret.log[Len(fn_ret.log)].op = "update"
    /\ fn_ret.log[Len(fn_ret.log)].accepted


(***************************************************************************)
(* The multipart upload (src/trakktor/src/aws/s3.rs).  UploadSpec has the  *)
(* runs of upload_file on a file of every size up to MaxFileSize: the file *)
(* is cut into chunks, one task per chunk is spawned, the tasks upload     *)
(* their parts in any order, at most PARALLEL_UPLOADS at a time, and the   *)
(* handles are joined in the order the tasks were spawned.  The constants  *)
(* are scaled down: the source has CHUNK_SIZE = 5 MiB (s3.rs:19),          *)
(* PARALLEL_UPLOADS = 4 (:20) and part numbers of 32 bits (:110).          *)
(* fn_args holds the file size, fn_ret the state of the upload.            *)
(***************************************************************************)
CHUNK_SIZE == 3

PARALLEL_UPLOADS == 2

\* The width of a part number (an i32 in the source).
I32_BITS == 3

\* The largest file Init draws.
MaxFileSize == 14

I32_MAX == 2 ^ (I32_BITS - 1) - 1

\* `x as i32` of an unsigned x: the low bits, read as a signed number.
as_i32(x) ==
    LET m == x % (2 ^ I32_BITS)
    IN  IF m > I32_MAX THEN m - 2 ^ I32_BITS ELSE m

\* The chunk count and the last chunk's size without the correction for a
\* size that is a multiple of CHUNK_SIZE.
chunk_layout_uncorrected(file_size) ==
    [chunk_count |-> (file_size \div CHUNK_SIZE) + 1,
     size_of_last_chunk |-> file_size % CHUNK_SIZE]

\* upload_file: the chunk count and the size of the last chunk.
chunk_layout(file_size) ==
    IF file_size % CHUNK_SIZE = 0
    THEN [chunk_count |-> (file_size \div CHUNK_SIZE) + 1 - 1,
          size_of_last_chunk |-> CHUNK_SIZE]
    ELSE [chunk_count |-> (file_size \div CHUNK_SIZE) + 1,
          size_of_last_chunk |-> file_size % CHUNK_SIZE]

\* The body of a spawned task up to its request: what it reads and the part
\* number it gives it.  The sum overflows at I32_MAX: a build with overflow
\* checks panics there (part_number "panic"), one without wraps.
chunk_part(chunk_index, layout, checked) ==
    [offset |-> chunk_index * CHUNK_SIZE,
     length |-> IF layout.chunk_count - 1 = chunk_index
                THEN layout.size_of_last_chunk ELSE CHUNK_SIZE,
     part_number |-> IF as_i32(chunk_index) = I32_MAX
                     THEN IF checked THEN "panic" ELSE "wrapped"
                     ELSE "number",
     number |-> IF as_i32(chunk_index) = I32_MAX
                THEN 0 - I32_MAX - 1 ELSE as_i32(chunk_index) + 1]

UploadInit ==
    /\ Idle
    /\ cache = <<>>
    /\ pc = "upload_file"
    /\ fn_args \in {<<file_size, checked>> :
                        file_size \in 0..MaxFileSize, checked \in BOOLEAN}
    /\ fn_ret = [layout |-> [chunk_count |-> 0, size_of_last_chunk |-> 0],
                 tasks |-> <<>>, permits |-> PARALLEL_UPLOADS,
                 upload_parts |-> <<>>, finished |-> <<>>]

\* upload_file up to the end of its spawning loop.
upload_file ==
    /\ pc = "upload_file"
    /\ \/ /\ pc' = "failed"
          /\ fn_ret' = fn_ret
       \/ /\ fn_args[1] = 0
          /\ pc' = "failed"
          /\ fn_ret' = fn_ret
       \/ /\ fn_args[1] # 0
          /\ LET layout == chunk_layout(fn_args[1])
             IN  fn_ret' = [fn_ret EXCEPT
                    !.layout = layout,
                    !.tasks = [i \in 1..layout.chunk_count |->
                        [state |-> "spawned",
                         part |-> chunk_part(i - 1, layout, fn_args[2])]]]
          /\ pc' = "join"
    /\ UNCHANGED <<idle_frame, cache, fn_args>>

\* A spawned task gets a permit of par_sem.
acquire ==
    /\ fn_ret.permits > 0
    /\ \E i \in 1..Len(fn_ret.tasks) :
          /\ fn_ret.tasks[i].state = "spawned"
          /\ fn_ret' = [fn_ret EXCEPT !.tasks[i].state = "uploading",
                                      !.permits = @ - 1]
    /\ UNCHANGED <<idle_frame, cache, fn_args, pc>>

\* A task ends: its part is uploaded, or reading, sending or the part
\* number failed; its permit is dropped.
upload_part ==
    /\ \E i \in 1..Len(fn_ret.tasks) :
          /\ fn_ret.tasks[i].state = "uploading"
          /\ \/ /\ fn_ret.tasks[i].part.part_number # "panic"
                /\ fn_ret' = [fn_ret EXCEPT !.tasks[i].state = "done",
                                            !.permits = @ + 1,
                                            !.finished = Append(@, i)]
             \/ fn_ret' = [fn_ret EXCEPT !.tasks[i].state = "failed",
                                         !.permits = @ + 1]
    /\ UNCHANGED <<idle_frame, cache, fn_args, pc>>

\* upload_file's join loop and what follows it: the next handle is awaited;
\* after the last one the upload is completed.
join_part ==
    /\ pc = "join"
    /\ LET j == Len(fn_ret.upload_parts) + 1
       IN  IF j > Len(fn_ret.tasks)
           THEN /\ pc' \in {"ok", "failed"}
                /\ fn_ret' = fn_ret
           ELSE \/ /\ fn_ret.tasks[j].state = "done"
                   /\ fn_ret' = [fn_ret EXCEPT !.upload_parts =
                         Append(@, fn_ret.tasks[j].part.number)]
                   /\ pc' = "join"
                \/ /\ fn_ret.tasks[j].state = "failed"
                   /\ fn_ret' = fn_ret
                   /\ pc' = "failed"
    /\ UNCHANGED <<idle_frame, cache, fn_args>>

UploadNext ==
    \/ upload_file
    \/ acquire
    \/ upload_part
    \/ join_part

UploadSpec == UploadInit /\ [][UploadNext]_vars


\* For a file whose size is among sizes: a size of 0 spawns nothing and
\* fails; any other size is cut into parts numbered from 1, each but the
\* last of CHUNK_SIZE bytes, the last of 1..CHUNK_SIZE bytes, part j at
\* offset (j-1)*CHUNK_SIZE, every byte of the file in exactly one part; and
\* the completed parts are the part numbers in ascending order, all of them
\* when the upload is completed.
UploadPartition(sizes) ==
    LET file_size == fn_args[1]
        tasks == fn_ret.tasks
        n == Len(tasks)
    IN  file_size \in sizes =>
            /\ file_size = 0 =>
                    tasks = <<>> /\ pc \in {"upload_file", "failed"}
            /\ file_size > 0 /\ (pc \in {"join", "ok"} \/ tasks # <<>>) =>
                /\ n >= 1
                /\ \A j \in 1..n :
                      /\ tasks[j].part.part_number = "number"
                      /\ tasks[j].part.number = j
                      /\ tasks[j].part.offset = (j - 1) * CHUNK_SIZE
                      /\ j < n => tasks[j].part.length = CHUNK_SIZE
                /\ tasks[n].part.length \in 1..CHUNK_SIZE
                /\ (n - 1) * CHUNK_SIZE + tasks[n].part.length = file_size
                /\ \A b \in 0..(file_size - 1) :
                      Cardinality({j \in 1..n :
                          /\ tasks[j].part.offset <= b
                          /\ b < tasks[j].part.offset + tasks[j].part.length})
                        = 1
                /\ fn_ret.upload_parts =
                        [j \in 1..Len(fn_ret.upload_parts) |-> j]
                /\ pc = "ok" => Len(fn_ret.upload_parts) = n

\* C38 (as amended): upload_file cuts every file of a size above 0 whose
\* chunk count fits a part number (at most I32_MAX chunks) into parts that
\* cover it exactly once, numbered 1..chunk_count, and lists the completed
\* parts in part-number order whatever order the uploads finish in; a file
\* of size 0 is rejected.
C38_UploadPartition == UploadPartition(0..(I32_MAX * CHUNK_SIZE))

\* A file of exactly two chunks is uploaded, its second part first.
C38_Witness ==
    /\ pc = "ok"
    /\ fn_args[1] = 2 * CHUNK_SIZE
    /\ fn_ret.finished = <<2, 1>>
    /\ fn_ret.upload_parts = <<1, 2>>

\* C38 (as stated): the same of every file size.
C38_AsStated == UploadPartition(Nat)


(***************************************************************************)
(* The chat document's includes (src/trakktor/src/ai_chat/chat_doc.rs).    *)
(* IncludeSpec has the runs of ChatDoc::load on a root file whose messages *)
(* include other files, which include others: every include is read by a   *)
(* task of its own, the reads share MAX_CONCURRENT_READS permits (64 in    *)
(* the source, chat_doc.rs:42, scaled down here), and every task joins the *)
(* tasks of its own includes in the order of its messages.  A message is   *)
(* <<"Text", role, content>> or <<"Include", file>>.  A task is named by   *)
(* its place in the tree of includes: <<>> is load itself, t \o <<i>> the  *)
(* task of the include that is message i of task t's file.  fn_args holds  *)
(* the files, fn_ret the tasks, the free permits and the task whose read    *)
(* ended first.  The include graphs drawn have no cycle.                   *)
(***************************************************************************)
MAX_CONCURRENT_READS == 1

\* The most messages of a file Init draws.
MaxMsgs == 2

ChatFiles == <<"root", "a", "b">>

\* The file whose read or parse fails.
BadFile == "missing"

\* The messages a file may hold: a text of its own, or an include of a
\* file later in ChatFiles or of the bad file.
MsgChoices(f) ==
    {<<"Text", "user", <<ChatFiles[f], n>>>> : n \in 1..MaxMsgs}
    \cup {<<"Include", ChatFiles[g]>> : g \in (f + 1)..Len(ChatFiles)}
    \cup {<<"Include", BadFile>>}

FileChoices(f) ==
    {ms \in UNION {[1..n -> MsgChoices(f)] : n \in 0..MaxMsgs} :
        \A i \in 1..Len(ms) : ms[i][1] = "Text" => ms[i][3][2] = i}

FileSystems ==
    {[name \in {ChatFiles[f] : f \in 1..Len(ChatFiles)} |->
        c[CHOOSE f \in 1..Len(ChatFiles) : ChatFiles[f] = name]] :
     c \in {c \in [1..Len(ChatFiles) -> UNION {FileChoices(f) :
                                        f \in 1..Len(ChatFiles)}] :
                \A f \in 1..Len(ChatFiles) : c[f] \in FileChoices(f)}}

\* handle_msgs up to its first join: a task for every include of the
\* file's messages, the task of the file itself left to join them.
handle_msgs(t, file, msgs) ==
    [p \in {t} \cup {t \o <<i>> : i \in {i \in 1..Len(msgs) :
                                            msgs[i][1] = "Include"}} |->
        IF p = t
        THEN [file |-> file, state |-> "joining", k |-> 0, msgs |-> <<>>]
        ELSE [file |-> msgs[p[Len(p)]][2], state |-> "acquire", k |-> 0,
              msgs |-> <<>>]]

IncludeInit ==
    /\ Idle
    /\ cache = <<>>
    /\ pc = "load"
    /\ fn_args \in {<<fs>> : fs \in FileSystems}
    /\ fn_ret = [tasks |-> <<>>, permits |-> MAX_CONCURRENT_READS,
                 reads |-> <<>>]

\* Where load is, from the state of its own handle_msgs.
LoadPc(tasks) ==
    IF tasks[<<>>].state = "done" THEN "ok"
    ELSE IF tasks[<<>>].state = "failed" THEN "failed"
    ELSE "join"

\* ChatDoc::load up to the first join of its handle_msgs.
load ==
    /\ pc = "load"
    /\ fn_ret' = [fn_ret EXCEPT
            !.tasks = handle_msgs(<<>>, "root", fn_args[1]["root"])]
    /\ pc' = "join"
    /\ UNCHANGED <<idle_frame, cache, fn_args>>

\* read_file: the task gets a permit.
permits_acquire ==
    /\ fn_ret.permits > 0
    /\ \E t \in DOMAIN fn_ret.tasks :
          /\ fn_ret.tasks[t].state = "acquire"
          /\ fn_ret' = [fn_ret EXCEPT !.tasks[t].state = "reading",
                                      !.permits = @ - 1]
    /\ UNCHANGED <<idle_frame, cache, fn_args, pc>>

\* proc_include that keeps its permit until its messages are complete.
proc_include_keeping_permit(t) ==
    /\ fn_ret.tasks[t].state = "reading"
    /\ IF fn_ret.tasks[t].file \in DOMAIN fn_args[1]
       THEN fn_ret' = [fn_ret EXCEPT
                !.tasks = handle_msgs(t, fn_ret.tasks[t].file,
                                fn_args[1][fn_ret.tasks[t].file]) @@ @,
                !.reads = IF @ = <<>> THEN <<t>> ELSE @]
       ELSE fn_ret' = [fn_ret EXCEPT !.tasks[t].state = "failed",
                                     !.permits = @ + 1]

\* proc_include from the end of the read to the first join of its
\* handle_msgs: the permit is dropped when read_file returns, the contents
\* are parsed and the includes spawned; a failed read or parse ends the task.
proc_include(t) ==
    /\ fn_ret.tasks[t].state = "reading"
    /\ IF fn_ret.tasks[t].file \in DOMAIN fn_args[1]
       THEN fn_ret' = [fn_ret EXCEPT
                !.tasks = handle_msgs(t, fn_ret.tasks[t].file,
                                fn_args[1][fn_ret.tasks[t].file]) @@ @,
                !.permits = @ + 1,
                !.reads = IF @ = <<>> THEN <<t>> ELSE @]
       ELSE fn_ret' = [fn_ret EXCEPT !.tasks[t].state = "failed",
                                     !.permits = @ + 1]

read_done ==
    /\ \E t \in DOMAIN fn_ret.tasks : proc_include(t)
    /\ UNCHANGED <<idle_frame, cache, fn_args, pc>>

\* The next element of task t's join loop can be taken.
CanJoin(tasks, fs, t) ==
    /\ tasks[t].state = "joining"
    /\ LET ms == fs[tasks[t].file]
       IN  IF tasks[t].k = Len(ms) THEN TRUE
           ELSE IF ms[tasks[t].k + 1][1] = "Text" THEN TRUE
           ELSE tasks[t \o <<tasks[t].k + 1>>].state \in {"done", "failed"}

\* handle_msgs' join loop, one element: a text is pushed, the messages of a
\* finished include are appended, a failed include fails the task; after
\* the last element the task returns its messages.
join_elem(tasks, fs, t) ==
    LET ms == fs[tasks[t].file]
        k == tasks[t].k
    IN  IF k = Len(ms) THEN [tasks EXCEPT ![t].state = "done"]
        ELSE IF ms[k + 1][1] = "Text"
            THEN [tasks EXCEPT ![t].k = k + 1,
                               ![t].msgs = Append(@, ms[k + 1])]
        ELSE IF tasks[t \o <<k + 1>>].state = "failed"
            THEN [tasks EXCEPT ![t].state = "failed"]
        ELSE [tasks EXCEPT ![t].k = k + 1,
                           ![t].msgs = @ \o tasks[t \o <<k + 1>>].msgs]

join ==
    /\ \E t \in DOMAIN fn_ret.tasks :
          /\ CanJoin(fn_ret.tasks, fn_args[1], t)
          /\ fn_ret' = [fn_ret EXCEPT
                !.tasks = join_elem(fn_ret.tasks, fn_args[1], t)]
          /\ pc' = LoadPc(fn_ret'.tasks)
    /\ UNCHANGED <<idle_frame, cache, fn_args>>

IncludeNext ==
    \/ load
    \/ permits_acquire
    \/ read_done
    \/ join

IncludeSpec == IncludeInit /\ [][IncludeNext]_vars


RECURSIVE ExpandOk(_, _)
\* Every file reachable from this one by includes can be read.
ExpandOk(fs, file) ==
    /\ file \in DOMAIN fs
    /\ \A i \in 1..Len(fs[file]) :
          fs[file][i][1] = "Include" => ExpandOk(fs, fs[file][i][2])

RECURSIVE Expand(_, _)
\* The messages of a file in the order of the document, every include
\* replaced in place by the messages of the included file, expanded too.
Expand(fs, file) ==
    Concat([i \in 1..Len(fs[file]) |->
                IF fs[file][i][1] = "Include"
                THEN Expand(fs, fs[file][i][2])
                ELSE <<fs[file][i]>>])

\* The tasks that can take a step.
Runnable ==
    {t \in DOMAIN fn_ret.tasks :
        \/ fn_ret.tasks[t].state = "acquire" /\ fn_ret.permits > 0
        \/ fn_ret.tasks[t].state = "reading"
        \/ CanJoin(fn_ret.tasks, fn_args[1], t)}

\* C39: a task that has returned holds the expansion of its file, in
\* document order, whatever order the reads ended in, and load returns the
\* expansion of the root file; it fails only when a file within reach cannot
\* be read; the permits taken are those of the tasks inside a read, none is
\* held by a task that processes its includes; and while load has not
\* returned some task can take a step.
C39_IncludeOrder ==
    pc \in {"join", "ok", "failed"} =>
        /\ \A t \in DOMAIN fn_ret.tasks :
              fn_ret.tasks[t].state = "done" =>
                /\ ExpandOk(fn_args[1], fn_ret.tasks[t].file)
                /\ fn_ret.tasks[t].msgs =
                        Expand(fn_args[1], fn_ret.tasks[t].file)
        /\ pc = "ok" <=> fn_ret.tasks[<<>>].state = "done"
        /\ pc = "failed" => ~ExpandOk(fn_args[1], "root")
        /\ fn_ret.permits = MAX_CONCURRENT_READS -
                Cardinality({t \in DOMAIN fn_ret.tasks :
                                fn_ret.tasks[t].state = "reading"})
        /\ fn_ret.permits >= 0
        /\ pc = "join" => Runnable # {}

\* load has returned the expansion of a root file of two includes, one of
\* them nested two deep, the read of the second include having ended first:
\* more includes side by side, and more in depth, than there are permits.
C39_Witness ==
    /\ pc = "ok"
    /\ MAX_CONCURRENT_READS = 1
    /\ {<<1>>, <<2>>} \subseteq DOMAIN fn_ret.tasks
    /\ \E t \in DOMAIN fn_ret.tasks : Len(t) = 2
    /\ fn_ret.reads[1] = <<2>>


(***************************************************************************)
(* The job info object's name (src/trakktor/src/aws_batch/job.rs).         *)
(* JobSpec applies JobInfo::serialize and JobInfo::deserialize on their    *)
(* own: a JobInfo is written as MessagePack (an array of the job type's    *)
(* name and the start time as an RFC 3339 text with as many fraction       *)
(* digits as the nanoseconds need), the bytes are written in the URL-safe  *)
(* base64 alphabet without padding, and the suffix is appended;            *)
(* deserialize undoes the three in turn.  A start time is the record of    *)
(* its UTC calendar fields; the tractor sign of the suffix is one          *)
(* character.  fn_args holds the JobInfo or the string given, fn_ret what  *)
(* serialize and deserialize returned.                                     *)
(***************************************************************************)
JOB_INFO_SUFFIX == <<".", "tractor", "-", "i", "n", "f", "o">>

\* The alphabet of URL_SAFE_NO_PAD: the character of each 6-bit value + 1.
URL_SAFE ==
    <<
    "A", "B", "C", "D", "E", "F", "G", "H", "I", "J", "K", "L", "M", "N",
    "O", "P", "Q", "R", "S", "T", "U", "V", "W", "X", "Y", "Z", "a", "b",
    "c", "d", "e", "f", "g", "h", "i", "j", "k", "l", "m", "n", "o", "p",
    "q", "r", "s", "t", "u", "v", "w", "x", "y", "z", "0", "1", "2", "3",
    "4", "5", "6", "7", "8", "9", "-", "_"
    >>

\* The printable ASCII characters: the character of each code - 31 (three
\* of them by name).
ASCII ==
    <<
    " ", "!", "quote", "#", "$", "%", "&", "'", "(", ")", "*", "+", ",", "-",
    ".", "/", "0", "1", "2", "3", "4", "5", "6", "7", "8", "9", ":", ";",
    "<", "=", ">", "?", "@", "A", "B", "C", "D", "E", "F", "G", "H", "I",
    "J", "K", "L", "M", "N", "O", "P", "Q", "R", "S", "T", "U", "V", "W",
    "X", "Y", "Z", "[", "backslash", "]", "^", "_", "backtick", "a", "b", "c", "d", "e",
    "f", "g", "h", "i", "j", "k", "l", "m", "n", "o", "p", "q", "r", "s",
    "t", "u", "v", "w", "x", "y", "z", "{", "|", "}", "~"
    >>

AsciiCode(c) == 31 + (CHOOSE i \in 1..Len(ASCII) : ASCII[i] = c)

RECURSIVE Pow10(_)
Pow10(n) == IF n = 0 THEN 1 ELSE 10 * Pow10(n - 1)

\* The decimal digits of n, padded with zeros to this width.
Digits(n, width) ==
    [i \in 1..width |-> ASCII[17 + ((n \div Pow10(width - i)) % 10)]]

IsDigit(c) == \E d \in 0..9 : ASCII[17 + d] = c

DigitValue(c) == CHOOSE d \in 0..9 : ASCII[17 + d] = c

RECURSIVE ParseDigits(_)
\* The number a run of digits writes.
ParseDigits(cs) ==
    IF cs = <<>> THEN 0
    ELSE 10 * ParseDigits(SubSeq(cs, 1, Len(cs) - 1)) + DigitValue(cs[Len(cs)])

\* The fraction of a second cut to milliseconds.
format_nanos_millis(nano) ==
    IF nano = 0 THEN <<>> ELSE <<".">> \o Digits(nano \div 1000000, 3)

\* chrono's SecondsFormat::AutoSi: no fraction, or 3, 6 or 9 digits of it,
\* the fewest that lose nothing.
format_nanos(nano) ==
    IF nano = 0 THEN <<>>
    ELSE IF nano % 1000000 = 0 THEN <<".">> \o Digits(nano \div 1000000, 3)
    ELSE IF nano % 1000 = 0 THEN <<".">> \o Digits(nano \div 1000, 6)
    ELSE <<".">> \o Digits(nano, 9)

\* DateTime<Utc>'s Serialize: the RFC 3339 text of the time.
to_rfc3339(t) ==
    Digits(t.year, 4) \o <<"-">> \o Digits(t.month, 2) \o <<"-">>
        \o Digits(t.day, 2) \o <<"T">> \o Digits(t.hour, 2) \o <<":">>
        \o Digits(t.minute, 2) \o <<":">> \o Digits(t.second, 2)
        \o format_nanos(t.nano) \o <<"Z">>

\* DateTime<Utc>'s Deserialize, of a text in UTC: the time the text writes.
parse_rfc3339(s) ==
    LET Num(a, b) == ParseDigits(SubSeq(s, a, b))
        AllDigits(a, b) == \A i \in a..b : IsDigit(s[i])
        frac == IF Len(s) > 20 THEN SubSeq(s, 21, Len(s) - 1) ELSE <<>>
    IN  IF \/ Len(s) < 20
           \/ ~(AllDigits(1, 4) /\ AllDigits(6, 7) /\ AllDigits(9, 10)
                /\ AllDigits(12, 13) /\ AllDigits(15, 16) /\ AllDigits(18, 19))
           \/ <<s[5], s[8], s[11], s[14], s[17]>> # <<"-", "-", "T", ":", ":">>
           \/ s[Len(s)] # "Z"
           \/ (Len(s) > 20 /\ (s[20] # "." \/ Len(frac) \notin 1..9
                               \/ \E i \in 1..Len(frac) : ~IsDigit(frac[i])))
        THEN Err("Syntax")
        ELSE Ok([year |-> Num(1, 4), month |-> Num(6, 7), day |-> Num(9, 10),
                 hour |-> Num(12, 13), minute |-> Num(15, 16),
                 second |-> Num(18, 19),
                 nano |-> ParseDigits(frac) * Pow10(9 - Len(frac))])

\* MessagePack's str: the length, in the header byte up to 31 and in a byte
\* of its own above, then the bytes of the text.
rmp_str(s) ==
    (IF Len(s) <= 31 THEN <<160 + Len(s)>> ELSE <<217, Len(s)>>)
        \o [i \in 1..Len(s) |-> AsciiCode(s[i])]

\* rmp_serde::to_vec of a JobInfo: an array of its two fields.
job_info_to_vec(x) ==
    <<146>> \o rmp_str(x.job_type) \o rmp_str(to_rfc3339(x.start_time))

\* The str at the head of bytes: its text and the bytes after it.
rmp_read_str(bytes) ==
    LET long == bytes # <<>> /\ bytes[1] = 217 /\ Len(bytes) >= 2
        short == bytes # <<>> /\ bytes[1] \in 160..191
        at  == IF long THEN 3 ELSE 2
        len == IF long THEN bytes[2] ELSE IF short THEN bytes[1] - 160 ELSE 0
    IN  IF ~(long \/ short) \/ Len(bytes) < at + len - 1
           \/ \E i \in at..(at + len - 1) : bytes[i] \notin 32..126
        THEN Err("Syntax")
        ELSE Ok([text |-> [i \in 1..len |-> ASCII[bytes[at + i - 1] - 31]],
                 rest |-> SubSeq(bytes, at + len, Len(bytes))])

\* rmp_serde::from_slice of a JobInfo.
job_info_from_slice(bytes) ==
    IF bytes = <<>> \/ bytes[1] # 146 THEN Err("Syntax")
    ELSE LET t == rmp_read_str(Tail(bytes))
         IN  IF t.tag # "Ok" THEN t
             ELSE IF t.value.text # <<"T","r","a","n","s","c","r","i","b","e">>
                 THEN Err("Syntax")
             ELSE LET s == rmp_read_str(t.value.rest)
                  IN  IF s.tag # "Ok" THEN s
                      ELSE LET time == parse_rfc3339(s.value.text)
                           IN  IF time.tag # "Ok" THEN time
                               ELSE Ok([job_type |-> t.value.text,
                                        start_time |-> time.value])

RECURSIVE encode(_)
\* URL_SAFE_NO_PAD.encode: three bytes to four characters, the last one or
\* two bytes to two or three.
encode(bytes) ==
    IF bytes = <<>> THEN <<>>
    ELSE IF Len(bytes) = 1
        THEN <<URL_SAFE[(bytes[1] \div 4) + 1], URL_SAFE[(bytes[1] % 4) * 16 + 1]>>
    ELSE IF Len(bytes) = 2
        THEN LET n == (bytes[1] * 256 + bytes[2]) * 4
             IN  <<URL_SAFE[(n \div 4096) + 1], URL_SAFE[((n \div 64) % 64) + 1],
                   URL_SAFE[(n % 64) + 1]>>
    ELSE LET n == bytes[1] * 65536 + bytes[2] * 256 + bytes[3]
         IN  <<URL_SAFE[(n \div 262144) + 1], URL_SAFE[((n \div 4096) % 64) + 1],
               URL_SAFE[((n \div 64) % 64) + 1], URL_SAFE[(n % 64) + 1]>>
                \o encode(SubSeq(bytes, 4, Len(bytes)))

RECURSIVE decode_values(_)
\* The bytes of a run of 6-bit values; <<-1>> where the run cannot be one.
decode_values(vs) ==
    IF vs = <<>> THEN <<>>
    ELSE IF Len(vs) = 1 THEN <<-1>>
    ELSE IF Len(vs) = 2
        THEN IF vs[2] % 16 # 0 THEN <<-1>>
             ELSE <<vs[1] * 4 + (vs[2] \div 16)>>
    ELSE IF Len(vs) = 3
        THEN IF vs[3] % 4 # 0 THEN <<-1>>
             ELSE LET n == (vs[1] * 4096 + vs[2] * 64 + vs[3]) \div 4
                  IN  <<n \div 256, n % 256>>
    ELSE LET n == vs[1] * 262144 + vs[2] * 4096 + vs[3] * 64 + vs[4]
         IN  <<n \div 65536, (n \div 256) % 256, n % 256>>
                \o decode_values(SubSeq(vs, 5, Len(vs)))

\* URL_SAFE_NO_PAD.decode.
decode(s) ==
    IF \E i \in 1..Len(s) : \A v \in 1..Len(URL_SAFE) : URL_SAFE[v] # s[i]
    THEN Err("DecodeError")
    ELSE LET bytes == decode_values([i \in 1..Len(s) |->
                        (CHOOSE v \in 1..Len(URL_SAFE) : URL_SAFE[v] = s[i]) - 1])
         IN  IF \E i \in 1..Len(bytes) : bytes[i] = -1
             THEN Err("DecodeError") ELSE Ok(bytes)

\* JobInfo::serialize.
serialize(x) == encode(job_info_to_vec(x)) \o JOB_INFO_SUFFIX

\* JobInfo::check_suffix.
check_suffix(serialized) == ends_with(serialized, JOB_INFO_SUFFIX)

\* JobInfo::deserialize: its result, and whether it got to decode.
deserialize(serialized) ==
    IF ~check_suffix(serialized)
    THEN [result |-> Err("InvalidSuffix"), decoded |-> FALSE]
    ELSE LET bytes == decode(SubSeq(serialized, 1,
                                Len(serialized) - Len(JOB_INFO_SUFFIX)))
         IN  [result |-> IF bytes.tag # "Ok" THEN bytes
                         ELSE job_info_from_slice(bytes.value),
              decoded |-> TRUE]


\* The JobInfo values Init draws.
JobInfos ==
    {[job_type |-> <<"T", "r", "a", "n", "s", "c", "r", "i", "b", "e">>,
      start_time |-> [year |-> y, month |-> mo, day |-> d, hour |-> h,
                      minute |-> 59, second |-> s, nano |-> n]] :
        y \in {1970, 2024, 9999}, mo \in {1, 12}, d \in {1, 31},
        h \in {0, 23}, s \in {0, 59},
        n \in {0, 1, 120000000, 123456000, 123456789}}

\* The strings Init gives to deserialize: names of other objects, a job
\* info name cut or grown at its end, and payloads that cannot be decoded.
JobStrings ==
    {<<>>, JOB_INFO_SUFFIX,
     <<"d", "o", "n", "e", ".", "tractor", "-", "f", "l", "a", "g">>,
     <<"i", "n", "/", "a">>,
     <<"A", "A", "tractor", "-", "i", "n", "f", "o">>,
     <<"*">> \o JOB_INFO_SUFFIX, <<"A">> \o JOB_INFO_SUFFIX,
     <<"A", "B">> \o JOB_INFO_SUFFIX, <<"k", "g">> \o JOB_INFO_SUFFIX}
    \cup UNION {{encode(job_info_to_vec(x)),
                 serialize(x) \o <<"x">>,
                 SubSeq(serialize(x), 1, Len(serialize(x)) - 1),
                 Tail(serialize(x))} :
                x \in {x \in JobInfos : x.start_time.year = 2024
                                        /\ x.start_time.month = 1
                                        /\ x.start_time.day = 1}}

JobInit ==
    /\ Idle
    /\ cache = <<>>
    /\ pc = "job"
    /\ fn_args \in {<<"info", x>> : x \in JobInfos}
                   \cup {<<"name", s>> : s \in JobStrings}
    /\ fn_ret = <<>>

\* A JobInfo is serialized.
job_info_serialize ==
    /\ pc = "job"
    /\ fn_args[1] = "info"
    /\ fn_ret' = <<serialize(fn_args[2])>>
    /\ pc' = "serialized"
    /\ UNCHANGED <<idle_frame, cache, fn_args>>

\* The string just serialized, or the string given, is deserialized.
job_info_deserialize ==
    /\ \/ pc = "serialized"
       \/ pc = "job" /\ fn_args[1] = "name"
    /\ fn_ret' = IF pc = "serialized"
                 THEN Append(fn_ret, deserialize(fn_ret[1]))
                 ELSE <<fn_args[2], deserialize(fn_args[2])>>
    /\ pc' = "deserialized"
    /\ UNCHANGED <<idle_frame, cache, fn_args>>

JobNext ==
    \/ job_info_serialize
    \/ job_info_deserialize

JobSpec == JobInit /\ [][JobNext]_vars

\* C40: the string serialize makes of a JobInfo ends with the job-info
\* suffix and is accepted by check_suffix, deserialize gives the JobInfo
\* back from it, and of a string that does not end with the suffix
\* deserialize returns an error without decoding anything.
C40_JobInfoRoundTrip ==
    /\ pc \in {"serialized", "deserialized"} /\ fn_args[1] = "info" =>
            /\ Len(fn_ret[1]) >= 7
            /\ SubSeq(fn_ret[1], Len(fn_ret[1]) - 6, Len(fn_ret[1]))
                    = <<".", "tractor", "-", "i", "n", "f", "o">>
            /\ check_suffix(fn_ret[1])
    /\ pc = "deserialized" /\ fn_args[1] = "info" =>
            fn_ret[2].result = Ok(fn_args[2])
    /\ pc = "deserialized" /\ fn_args[1] = "name" =>
            LET s == fn_args[2]
            IN  (Len(s) < 7 \/ SubSeq(s, Len(s) - 6, Len(s))
                        # <<".", "tractor", "-", "i", "n", "f", "o">>) =>
                    /\ fn_ret[2].result.tag # "Ok"
                    /\ ~fn_ret[2].decoded

\* A JobInfo whose start time has nanoseconds down to the last digit has
\* been serialized and read back.
C40_Witness ==
    /\ pc = "deserialized"
    /\ fn_args[1] = "info"
    /\ fn_args[2].start_time.nano = 123456789
    /\ fn_ret[2].result = Ok(fn_args[2])
    /\ fn_ret[2].decoded

\* A name without the suffix has been turned down.
C40_WitnessRejected ==
    /\ pc = "deserialized"
    /\ fn_args[1] = "name"
    /\ fn_args[2] = <<"d", "o", "n", "e", ".", "tractor", "-", "f", "l", "a", "g">>
    /\ fn_ret[2].result = Err("InvalidSuffix")

====
